---- MODULE Spec2Model ----
(***************************************************************************)
(* HistoricalAnalysisFlow of sentralert: analyze_and_propose runs the      *)
(* latency-regression, error-rate and failure-rate detectors in sequence   *)
(* against the telemetry source (SentryClient.discover) and, for the       *)
(* latency detector, the judgment oracle (ClaudeClient.analyze).           *)
(*                                                                         *)
(* Numbers.  p95 durations and counts are non-negative integers.  Failure  *)
(* rates are fixed-point with three decimals (50 stands for 0.05).  The    *)
(* two float products of the code, 1.4 * p95_base and p95_base * 1.1, are  *)
(* evaluated as IEEE-754 doubles evaluate them on integer operands.        *)
(***************************************************************************)
EXTENDS Integers, Sequences, FiniteSets, TLC

(* ------------------------------ bounds -------------------------------- *)

\* number of distinct subjects (transactions) the telemetry source knows
NumTx == 2

TxName == <<"/checkout", "/cart", "/login", "/search">>

Tx == {TxName[k] : k \in 1..NumTx}

TxIdx(t) == CHOOSE k \in 1..NumTx : TxName[k] = t

Environments == {"production", "staging"}

\* p95 values the 7d baseline query may report
BaselineP95 == {0, 300, 365, 366}

\* p95 values the 1h current query may report
CurrentP95 == {450, 511, 600}

\* hourly error counts the error query may report
ErrorCounts == {50, 51, 75}

\* failure rates (thousandths) the failure-rate query may report
FailureRates == {50, 51}

(* --------------------------- telemetry rows --------------------------- *)

\* A grouped query returns one row per subject.
DistinctTx(s) == \A j, k \in DOMAIN s : j # k => s[j].transaction # s[k].transaction

RowSeqs(Vals) ==
    UNION {{s \in [1..n -> [transaction : Tx, p95 : Vals]] : DistinctTx(s)} : n \in 0..NumTx}

\* The order of the baseline rows is immaterial to the dict built from them;
\* they are enumerated in one order only.
BaselineRows ==
    {s \in RowSeqs(BaselineP95) :
        \A j, k \in DOMAIN s : j < k => TxIdx(s[j].transaction) < TxIdx(s[k].transaction)}

CurrentRows == RowSeqs(CurrentP95)

\* An ungrouped count() query returns one row, or none.
ErrorRows == {<<>>} \cup {<<[count |-> c]>> : c \in ErrorCounts}

FailureRows ==
    UNION {{s \in [1..n -> [transaction : Tx, failure_rate : FailureRates]] : DistinctTx(s)}
              : n \in 0..NumTx}

(* ------------------------- the oracle's answers ----------------------- *)

\* A response text is a sequence of pieces: a fence marker, prose, or the
\* text of one JSON value.
FenceJson == [t |-> "fence_json", v |-> [kind |-> "none", obj |-> <<>>]]
Fence     == [t |-> "fence",   v |-> [kind |-> "none", obj |-> <<>>]]
Prose     == [t |-> "prose",   v |-> [kind |-> "none", obj |-> <<>>]]
Json(val) == [t |-> "json",    v |-> val]

JObject(fields) == [kind |-> "object", obj |-> fields]
JArray          == [kind |-> "array",  obj |-> <<>>]

Analysis(legit) ==
    [alert_name |-> "Checkout latency regression",
     justification |-> "p95 regressed against the 7d baseline",
     severity |-> "HIGH",
     warning_threshold_ms |-> 600,
     critical_threshold_ms |-> 800,
     is_legitimate |-> legit]

AnalysisNoVerdict ==
    [alert_name |-> "Checkout latency regression",
     justification |-> "p95 regressed against the 7d baseline",
     severity |-> "HIGH",
     warning_threshold_ms |-> 600,
     critical_threshold_ms |-> 800]

AnalysisNoName ==
    [justification |-> "p95 regressed against the 7d baseline",
     severity |-> "HIGH",
     warning_threshold_ms |-> 600,
     critical_threshold_ms |-> 800,
     is_legitimate |-> TRUE]

\* an affirming answer that proposes another alert name
AnalysisOtherName ==
    [Analysis(TRUE) EXCEPT !.alert_name = "Cart latency regression"]

OracleTexts ==
    { <<Json(JObject(Analysis(TRUE)))>>,
      <<Json(JObject(AnalysisOtherName))>>,
      <<FenceJson, Json(JObject(Analysis(TRUE))), Fence>>,
      <<Prose, Fence, Json(JObject(Analysis(TRUE))), Fence, Prose>>,
      <<Json(JObject(Analysis(FALSE)))>>,
      <<Json(JObject(AnalysisNoVerdict))>>,
      <<Json(JObject(AnalysisNoName))>>,
      <<Prose>>,
      <<Prose, Json(JObject(Analysis(TRUE)))>>,
      <<Json(JArray)>> }

\* values the process environment may hold for ALERTS_NOTIFY_EMAIL:
\* <<>> when the variable is unset, <<value>> when it is set
NotifyEmailEnv == {<<>>, <<"oncall@example.com">>}

(* ------------------------------ state --------------------------------- *)

VARIABLES
    pc,               \* position in analyze_and_propose
    environment,      \* the environment argument
    notify_env,       \* ALERTS_NOTIFY_EMAIL in the process environment
    queries,          \* the discover calls issued so far, each with its outcome
    baseline,         \* rows of the 7d query
    current,          \* rows of the 1h query
    baseline_map,     \* subject -> baseline p95
    i,                \* 1-based index of the next row of current
    response,         \* <<text>> of the oracle answer for the last row asked, else <<>>
    oracle_calls,     \* subjects the oracle was asked about, in call order
    lat_suggestions,  \* the latency detector's local suggestions list
    latency_alerts,   \* list returned by _analyze_latency_regression
    errors,           \* rows of the error-count query
    error_alerts,     \* list returned by _analyze_error_rates
    failure_data,     \* rows of the failure-rate query
    failure_alerts,   \* list returned by _analyze_failure_rates
    suggestions,      \* analyze_and_propose's accumulated list
    returned,         \* <<list>> once analyze_and_propose returned, else <<>>
    exc               \* exception that left analyze_and_propose, or "none"

\* the variables of analyze_and_propose
flowVars == <<pc, environment, notify_env, queries, baseline, current, baseline_map, i,
              response, oracle_calls, lat_suggestions, latency_alerts, errors, error_alerts,
              failure_data, failure_alerts, suggestions, returned, exc>>

\* the state of SentryAlertApplier._build_alert_payload and its callers
VARIABLES
    alert_config,     \* the suggestion read back from its YAML file, a dict
    project_slug,     \* the project the rule is submitted to
    payloads,         \* the payloads the successive _build_alert_payload calls returned
    build_exc         \* exception that left _build_alert_payload, or "none"

normVars == <<alert_config, project_slug, payloads, build_exc>>

\* the state of ServiceAnalysisAgent._parse_final_response
VARIABLES
    response_text,    \* the agent's final text, a sequence of tokens
    execution_trace,  \* the tool executions recorded by analyze
    result,           \* the dict _parse_final_response returned, <<>> before
    svc_pc            \* "start" before the call, "returned" or "raised" after, "idle" when unused

svcVars == <<response_text, execution_trace, result, svc_pc>>

\* the state of SentryAlertApplier.apply_alerts_from_directory and the backend
VARIABLES
    dir_exists,       \* whether the alerts directory exists
    yaml_files,       \* the files of the directory, in processing order
    file_idx,         \* position of the for loop in yaml_files
    backend_rules,    \* the alert rules the backend holds for the project
    calls,            \* what happened to each file processed so far
    results,          \* the list apply_alerts_from_directory accumulates
    apply_pc,         \* "start", "loop", "returned", "raised"; "idle" when unused
    reported          \* the count main prints, <<>> before

applyVars == <<dir_exists, yaml_files, file_idx, backend_rules, calls, results, apply_pc,
               reported>>

\* the state of ServiceAnalysisAgent.analyze
VARIABLES
    iteration,        \* the loop counter of analyze
    model_calls,      \* number of client.messages.create calls made
    messages,         \* roles of the conversation sent to the model
    agent_pc          \* "loop", "parsing", "returned", "raised"; "idle" when unused

agentVars == <<iteration, model_calls, messages, agent_pc>>

\* the state of the two command-line entry points
VARIABLES
    program,          \* which main runs: "sentralert" or "apply_alerts"
    argv,             \* the command-line arguments after the program name
    env_vars,         \* the environment variables that hold a non-empty value
    cli_pc,           \* position of main; "idle" when unused
    exit_code,        \* <<>> while running, <<code>> after sys.exit
    effects           \* clients constructed, analyses run, files written, in order

cliVars == <<program, argv, env_vars, cli_pc, exit_code, effects>>

\* the variables of the other entry points
otherVars == <<normVars, svcVars, applyVars, agentVars, cliVars>>

vars == <<flowVars, otherVars>>

\* _build_alert_payload has not been called
NormIdle ==
    /\ alert_config = <<>>
    /\ project_slug = ""
    /\ payloads = <<>>
    /\ build_exc = "none"

\* _parse_final_response has not been called
SvcIdle ==
    /\ response_text = <<>>
    /\ execution_trace = <<>>
    /\ result = <<>>
    /\ svc_pc = "idle"

\* apply_alerts_from_directory has not been called
ApplyIdle ==
    /\ dir_exists = FALSE
    /\ yaml_files = <<>>
    /\ file_idx = 0
    /\ backend_rules = <<>>
    /\ calls = <<>>
    /\ results = <<>>
    /\ apply_pc = "idle"
    /\ reported = <<>>

\* analyze has not been called
AgentIdle ==
    /\ iteration = 0
    /\ model_calls = 0
    /\ messages = <<>>
    /\ agent_pc = "idle"

\* no main has been started
CliIdle ==
    /\ program = ""
    /\ argv = <<>>
    /\ env_vars = {}
    /\ cli_pc = "idle"
    /\ exit_code = <<>>
    /\ effects = <<>>

\* the other entry points have not been called
OtherIdle == NormIdle /\ SvcIdle /\ ApplyIdle /\ AgentIdle /\ CliIdle

\* analyze_and_propose has not been called
FlowIdle ==
    /\ pc = "idle"
    /\ environment = "production"
    /\ notify_env = <<>>
    /\ queries = <<>>
    /\ baseline = <<>>
    /\ current = <<>>
    /\ baseline_map = <<>>
    /\ i = 0
    /\ response = <<>>
    /\ oracle_calls = <<>>
    /\ lat_suggestions = <<>>
    /\ latency_alerts = <<>>
    /\ errors = <<>>
    /\ error_alerts = <<>>
    /\ failure_data = <<>>
    /\ failure_alerts = <<>>
    /\ suggestions = <<>>
    /\ returned = <<>>
    /\ exc = "none"

(* ------------------------- float arithmetic --------------------------- *)

RECURSIVE Pow2Floor(_)
\* the largest power of two that is <= n, for n >= 1
Pow2Floor(n) == IF n < 2 THEN 1 ELSE 2 * Pow2Floor(n \div 2)

\* now > 1.4 * base as doubles decide it.  The double nearest 1.4 is
\* 1.4 - 0.4 * 2^-52, so the product lies below 1.4 * base by
\* (4 * base / 5) * 2^-53; when 1.4 * base is the integer now, the product
\* rounds to a double below now as soon as that gap exceeds half the spacing
\* of the doubles under now, which is Pow2Floor(now) * 2^-53.
GtTimes14(now, base) ==
    IF 10 * now # 14 * base
    THEN 10 * now > 14 * base
    ELSE base > 0 /\ 4 * base > 5 * Pow2Floor(now)

\* int(base * 1.1).  The double nearest 1.1 lies above 1.1, so the product
\* never falls short of an integer 1.1 * base, and int() truncates.
IntTimes11(base) == (11 * base) \div 10

(* ------------------------- oracle text parsing ------------------------ *)

Contains(text, tok) == \E k \in DOMAIN text : text[k].t = tok

IndexOf(text, tok) == CHOOSE k \in DOMAIN text :
                         text[k].t = tok /\ \A j \in 1..(k - 1) : text[j].t # tok

\* text.split(sep)[0]
SplitHead(text, tok) ==
    IF Contains(text, tok) THEN SubSeq(text, 1, IndexOf(text, tok) - 1) ELSE text

\* text.split(sep)[1], defined when sep occurs in text
SplitSecond(text, tok) ==
    SplitHead(SubSeq(text, IndexOf(text, tok) + 1, Len(text)), tok)

StripMarkdown(text) ==
    IF Contains(text, "fence_json")
    THEN SplitHead(SplitSecond(text, "fence_json"), "fence")
    ELSE IF Contains(text, "fence")
         THEN SplitHead(SplitSecond(text, "fence"), "fence")
         ELSE text

DecodeError == [kind |-> "JSONDecodeError", obj |-> <<>>]

\* json.loads: the text must be exactly one JSON value
JsonLoads(text) ==
    IF Len(text) = 1 /\ text[1].t = "json" THEN text[1].v ELSE DecodeError

\* as if the code read analysis.get("is_legitimate", True)
IsLegitimate_DefaultTrue(analysis) ==
    "is_legitimate" \notin DOMAIN analysis \/ analysis.is_legitimate = TRUE

\* analysis.get("is_legitimate") as a truth value
IsLegitimate(analysis) ==
    "is_legitimate" \in DOMAIN analysis /\ analysis.is_legitimate = TRUE

\* keys whose subscription raises KeyError when absent
RequiredKeys == {"alert_name", "warning_threshold_ms", "critical_threshold_ms",
                 "justification", "severity"}

(* ---------------------------- suggestions ----------------------------- *)

\* os.getenv("ALERTS_NOTIFY_EMAIL", "team@example.com")
GetNotifyEmail(env) == IF env = <<>> THEN "team@example.com" ELSE env[1]

EmailAction(env) ==
    [type |-> "email", targetType |-> "specific", targetIdentifier |-> GetNotifyEmail(env)]

\* as if the resolve threshold were derived from the oracle's warning threshold
LatencySuggestion_ResolveFromOracle(analysis, tx, p95_base, env, nenv) ==
    [kind |-> "sentry.metric_alert",
     flow |-> "historical",
     name |-> analysis.alert_name,
     dataset |-> "transactions",
     aggregate |-> "p95(transaction.duration)",
     query |-> [event_type |-> "transaction", transaction |-> tx, environment |-> env],
     timeWindow |-> 5,
     thresholdType |-> "above",
     environment |-> env,
     thresholds |-> [warning |-> analysis.warning_threshold_ms,
                     critical |-> analysis.critical_threshold_ms],
     resolveThreshold |-> (9 * analysis.warning_threshold_ms) \div 10,
     justification |-> <<analysis.justification>>,
     severity |-> analysis.severity,
     actions |-> <<EmailAction(nenv)>>]

LatencySuggestion(analysis, tx, p95_base, env, nenv) ==
    [kind |-> "sentry.metric_alert",
     flow |-> "historical",
     name |-> analysis.alert_name,
     dataset |-> "transactions",
     aggregate |-> "p95(transaction.duration)",
     query |-> [event_type |-> "transaction", transaction |-> tx, environment |-> env],
     timeWindow |-> 5,
     thresholdType |-> "above",
     environment |-> env,
     thresholds |-> [warning |-> analysis.warning_threshold_ms,
                     critical |-> analysis.critical_threshold_ms],
     resolveThreshold |-> IntTimes11(p95_base),
     justification |-> <<analysis.justification>>,
     severity |-> analysis.severity,
     actions |-> <<EmailAction(nenv)>>]

\* as if the critical threshold followed the observed count
ErrorSuggestion_ThresholdFromCount(error_count, env, nenv) ==
    [kind |-> "sentry.metric_alert",
     flow |-> "historical",
     name |-> "High error rate in " \o env,
     dataset |-> "events",
     aggregate |-> "count()",
     query |-> [event_type |-> "error", environment |-> env],
     timeWindow |-> 5,
     thresholdType |-> "above",
     environment |-> env,
     thresholds |-> [warning |-> 30, critical |-> error_count],
     justification |-> <<"Detected ", ToString(error_count),
                         " errors in the last hour, which exceeds normal baseline.">>,
     severity |-> "HIGH",
     actions |-> <<EmailAction(nenv)>>]

ErrorSuggestion(error_count, env, nenv) ==
    [kind |-> "sentry.metric_alert",
     flow |-> "historical",
     name |-> "High error rate in " \o env,
     dataset |-> "events",
     aggregate |-> "count()",
     query |-> [event_type |-> "error", environment |-> env],
     timeWindow |-> 5,
     thresholdType |-> "above",
     environment |-> env,
     thresholds |-> [warning |-> 30, critical |-> 50],
     justification |-> <<"Detected ", ToString(error_count),
                         " errors in the last hour, which exceeds normal baseline.">>,
     severity |-> "HIGH",
     actions |-> <<EmailAction(nenv)>>]

\* thresholds 0.03 and 0.05 in thousandths
FailureSuggestion(tx, failure_rate, env, nenv) ==
    [kind |-> "sentry.metric_alert",
     flow |-> "historical",
     name |-> tx \o " high failure rate",
     dataset |-> "transactions",
     aggregate |-> "failure_rate()",
     query |-> [event_type |-> "transaction", transaction |-> tx, environment |-> env],
     timeWindow |-> 5,
     thresholdType |-> "above",
     environment |-> env,
     thresholds |-> [warning |-> 30, critical |-> 50],
     justification |-> <<"Current failure rate is ",
                         ToString(failure_rate \div 10) \o "." \o ToString(failure_rate % 10),
                         "%, which is critically high for a user-facing endpoint.">>,
     severity |-> "CRITICAL",
     actions |-> <<EmailAction(nenv)>>]

(* ----------------------------- detectors ------------------------------ *)

\* as if a subject without a baseline row fell back to a baseline of 1
BaselineMap_DefaultsMissing(rows) ==
    [t \in Tx |->
        IF \E k \in DOMAIN rows : rows[k].transaction = t
        THEN rows[CHOOSE k \in DOMAIN rows : rows[k].transaction = t].p95
        ELSE 1]

\* dict comprehension over the baseline rows: a later row of a subject wins
BaselineMap(rows) ==
    [t \in {rows[k].transaction : k \in DOMAIN rows} |->
        LET last == CHOOSE k \in DOMAIN rows :
                       /\ rows[k].transaction = t
                       /\ \A j \in DOMAIN rows : rows[j].transaction = t => j <= k
        IN rows[last].p95]

\* the mechanical gate of the latency detector on one row of current:
\* p95_base and p95_now > 500 and p95_now > 1.4 * p95_base
LatencyGate(row, bmap) ==
    /\ row.transaction \in DOMAIN bmap
    /\ bmap[row.transaction] # 0
    /\ row.p95 > 500
    /\ GtTimes14(row.p95, bmap[row.transaction])

\* as if the boundary were inclusive: error_count >= 50
ErrorRateAlerts_Inclusive(rows, env, nenv) ==
    IF rows = <<>> THEN <<>>
    ELSE IF rows[1].count >= 50 THEN <<ErrorSuggestion(rows[1].count, env, nenv)>>
    ELSE <<>>

\* as if the boundary were inclusive: failure_rate >= 0.05
RECURSIVE FailureRateAlerts_Inclusive(_, _, _)
FailureRateAlerts_Inclusive(rows, env, nenv) ==
    IF rows = <<>> THEN <<>>
    ELSE LET row == Head(rows)
             rest == FailureRateAlerts_Inclusive(Tail(rows), env, nenv)
         IN IF row.failure_rate >= 50
            THEN <<FailureSuggestion(row.transaction, row.failure_rate, env, nenv)>> \o rest
            ELSE rest

\* the body of _analyze_error_rates after its query
ErrorRateAlerts(rows, env, nenv) ==
    IF rows = <<>> THEN <<>>
    ELSE IF rows[1].count > 50 THEN <<ErrorSuggestion(rows[1].count, env, nenv)>>
    ELSE <<>>

RECURSIVE FailureRateAlerts(_, _, _)
\* the loop of _analyze_failure_rates over the rows of its query
FailureRateAlerts(rows, env, nenv) ==
    IF rows = <<>> THEN <<>>
    ELSE LET row == Head(rows)
             rest == FailureRateAlerts(Tail(rows), env, nenv)
         IN IF row.failure_rate > 50
            THEN <<FailureSuggestion(row.transaction, row.failure_rate, env, nenv)>> \o rest
            ELSE rest

TransactionQuery(env, period) ==
    [fields |-> <<"transaction", "p95(transaction.duration)", "count()">>,
     query |-> [event_type |-> "transaction", environment |-> env],
     statsPeriod |-> period]

ErrorQuery(env) ==
    [fields |-> <<"count()">>,
     query |-> [event_type |-> "error", environment |-> env],
     statsPeriod |-> "1h"]

FailureQuery(env) ==
    [fields |-> <<"transaction", "failure_rate()">>,
     query |-> [event_type |-> "transaction", environment |-> env],
     statsPeriod |-> "1h"]

\* the query analyze_and_propose issues at each of its query points
QueryAt(p, env) ==
    CASE p = "baseline_query" -> TransactionQuery(env, "7d")
      [] p = "current_query"  -> TransactionQuery(env, "1h")
      [] p = "error_query"    -> ErrorQuery(env)
      [] p = "failure_query"  -> FailureQuery(env)

\* one discover call: the request, and whether raise_for_status() let it pass
Discovered(p, env, ok) == [request |-> QueryAt(p, env), ok |-> ok]

QueryPoints == {"baseline_query", "current_query", "error_query", "failure_query"}

(* ------------------------------ actions ------------------------------- *)

Init ==
    /\ pc = "baseline_query"
    /\ environment \in Environments
    /\ notify_env \in NotifyEmailEnv
    /\ queries = <<>>
    /\ baseline = <<>>
    /\ current = <<>>
    /\ baseline_map = <<>>
    /\ i = 0
    /\ response = <<>>
    /\ oracle_calls = <<>>
    /\ lat_suggestions = <<>>
    /\ latency_alerts = <<>>
    /\ errors = <<>>
    /\ error_alerts = <<>>
    /\ failure_data = <<>>
    /\ failure_alerts = <<>>
    /\ OtherIdle
    /\ suggestions = <<>>
    /\ returned = <<>>
    /\ exc = "none"

\* sentry.discover(..., "7d") returns its rows
DiscoverBaseline ==
    /\ pc = "baseline_query"
    /\ \E rows \in BaselineRows : baseline' = rows
    /\ queries' = Append(queries, Discovered(pc, environment, TRUE))
    /\ pc' = "current_query"
    /\ UNCHANGED <<failure_data, environment, notify_env, current, baseline_map, i, response,
                   oracle_calls, lat_suggestions, latency_alerts, errors, error_alerts,
                   failure_alerts, suggestions, returned, exc>>
    /\ UNCHANGED otherVars

\* sentry.discover(..., "1h") returns its rows; baseline_map is built and the
\* loop over current starts
DiscoverCurrent ==
    /\ pc = "current_query"
    /\ \E rows \in CurrentRows : current' = rows
    /\ queries' = Append(queries, Discovered(pc, environment, TRUE))
    /\ baseline_map' = BaselineMap(baseline)
    /\ i' = 1
    /\ lat_suggestions' = <<>>
    /\ pc' = "latency_loop"
    /\ UNCHANGED <<failure_data, environment, notify_env, baseline, response, oracle_calls,
                   latency_alerts, errors, error_alerts, failure_alerts, suggestions,
                   returned, exc>>
    /\ UNCHANGED otherVars

\* as if analyze_and_propose caught the failure and returned what it had
DiscoverRaises_Swallowed ==
    /\ pc \in QueryPoints
    /\ queries' = Append(queries, Discovered(pc, environment, FALSE))
    /\ pc' = "done"
    /\ returned' = <<suggestions>>
    /\ UNCHANGED <<failure_data, environment, notify_env, baseline, current, baseline_map, i, response,
                   oracle_calls, lat_suggestions, latency_alerts, errors, error_alerts,
                   failure_alerts, suggestions, exc>>
    /\ UNCHANGED otherVars

\* response.raise_for_status() raises in discover: nothing on the way up
\* catches it
DiscoverRaises ==
    /\ pc \in QueryPoints
    /\ queries' = Append(queries, Discovered(pc, environment, FALSE))
    /\ pc' = "raised"
    /\ exc' = "HTTPError"
    /\ UNCHANGED <<failure_data, environment, notify_env, baseline, current, baseline_map, i, response,
                   oracle_calls, lat_suggestions, latency_alerts, errors, error_alerts,
                   failure_alerts, suggestions, returned>>
    /\ UNCHANGED otherVars

\* a row of current that does not pass the gate
LatencyRowSkip ==
    /\ pc = "latency_loop"
    /\ i <= Len(current)
    /\ ~LatencyGate(current[i], baseline_map)
    /\ i' = i + 1
    /\ UNCHANGED <<failure_data, pc, environment, notify_env, queries, baseline, current, baseline_map,
                   response, oracle_calls, lat_suggestions, latency_alerts, errors,
                   error_alerts, failure_alerts, suggestions, returned, exc>>
    /\ UNCHANGED otherVars

\* as if a new suggestion were put in front of the detector's list
LatencyRowOracle_InsertsInFront ==
    /\ pc = "latency_loop"
    /\ i <= Len(current)
    /\ LatencyGate(current[i], baseline_map)
    /\ oracle_calls' = Append(oracle_calls, current[i].transaction)
    /\ \E text \in OracleTexts :
         LET tx == current[i].transaction
             p95_base == baseline_map[tx]
             analysis == JsonLoads(StripMarkdown(text))
         IN /\ response' = <<text>>
            /\ IF analysis = DecodeError
               THEN \* json.JSONDecodeError, caught
                    /\ i' = i + 1
                    /\ UNCHANGED <<pc, exc, lat_suggestions>>
               ELSE IF analysis.kind # "object"
               THEN \* analysis.get raises AttributeError, not caught
                    /\ pc' = "raised"
                    /\ exc' = "AttributeError"
                    /\ UNCHANGED <<i, lat_suggestions>>
               ELSE IF ~IsLegitimate(analysis.obj)
               THEN /\ i' = i + 1
                    /\ UNCHANGED <<pc, exc, lat_suggestions>>
               ELSE IF ~(RequiredKeys \subseteq DOMAIN analysis.obj)
               THEN \* KeyError, caught
                    /\ i' = i + 1
                    /\ UNCHANGED <<pc, exc, lat_suggestions>>
               ELSE /\ lat_suggestions' =
                         <<LatencySuggestion(analysis.obj, tx, p95_base,
                                             environment, notify_env)>>
                         \o lat_suggestions
                    /\ i' = i + 1
                    /\ UNCHANGED <<pc, exc>>
    /\ UNCHANGED <<failure_data, environment, notify_env, queries, baseline, current, baseline_map,
                   latency_alerts, errors, error_alerts, failure_alerts, suggestions,
                   returned>>
    /\ UNCHANGED otherVars

\* a row of current that passes the gate, and the oracle answers with a text
LatencyRowOracle ==
    /\ pc = "latency_loop"
    /\ i <= Len(current)
    /\ LatencyGate(current[i], baseline_map)
    /\ oracle_calls' = Append(oracle_calls, current[i].transaction)
    /\ \E text \in OracleTexts :
         LET tx == current[i].transaction
             p95_base == baseline_map[tx]
             analysis == JsonLoads(StripMarkdown(text))
         IN /\ response' = <<text>>
            /\ IF analysis = DecodeError
               THEN \* json.JSONDecodeError, caught
                    /\ i' = i + 1
                    /\ UNCHANGED <<pc, exc, lat_suggestions>>
               ELSE IF analysis.kind # "object"
               THEN \* analysis.get raises AttributeError, not caught
                    /\ pc' = "raised"
                    /\ exc' = "AttributeError"
                    /\ UNCHANGED <<i, lat_suggestions>>
               ELSE IF ~IsLegitimate(analysis.obj)
               THEN /\ i' = i + 1
                    /\ UNCHANGED <<pc, exc, lat_suggestions>>
               ELSE IF ~(RequiredKeys \subseteq DOMAIN analysis.obj)
               THEN \* KeyError, caught
                    /\ i' = i + 1
                    /\ UNCHANGED <<pc, exc, lat_suggestions>>
               ELSE /\ lat_suggestions' =
                         Append(lat_suggestions,
                                LatencySuggestion(analysis.obj, tx, p95_base,
                                                  environment, notify_env))
                    /\ i' = i + 1
                    /\ UNCHANGED <<pc, exc>>
    /\ UNCHANGED <<failure_data, environment, notify_env, queries, baseline, current, baseline_map,
                   latency_alerts, errors, error_alerts, failure_alerts, suggestions,
                   returned>>
    /\ UNCHANGED otherVars

\* a row of current that passes the gate, and claude.analyze raises
\* anthropic.APIError: the except clause names other exceptions only
LatencyRowOracleRaises ==
    /\ pc = "latency_loop"
    /\ i <= Len(current)
    /\ LatencyGate(current[i], baseline_map)
    /\ oracle_calls' = Append(oracle_calls, current[i].transaction)
    /\ response' = <<>>
    /\ pc' = "raised"
    /\ exc' = "APIError"
    /\ UNCHANGED <<failure_data, environment, notify_env, queries, baseline, current, baseline_map, i,
                   lat_suggestions, latency_alerts, errors, error_alerts, failure_alerts,
                   suggestions, returned>>
    /\ UNCHANGED otherVars

\* _analyze_latency_regression returns its list; its locals go out of scope
LatencyReturn ==
    /\ pc = "latency_loop"
    /\ i > Len(current)
    /\ latency_alerts' = lat_suggestions
    /\ suggestions' = suggestions \o lat_suggestions
    /\ baseline' = <<>>
    /\ current' = <<>>
    /\ baseline_map' = <<>>
    /\ i' = 0
    /\ response' = <<>>
    /\ lat_suggestions' = <<>>
    /\ pc' = "error_query"
    /\ UNCHANGED <<failure_data, environment, notify_env, queries, oracle_calls, errors, error_alerts,
                   failure_alerts, returned, exc>>
    /\ UNCHANGED otherVars

\* as if the error-rate detector's list were put in front of the accumulated one
AnalyzeErrorRates_Prepends ==
    /\ pc = "error_query"
    /\ queries' = Append(queries, Discovered(pc, environment, TRUE))
    /\ \E rows \in ErrorRows :
         /\ errors' = rows
         /\ error_alerts' = ErrorRateAlerts(rows, environment, notify_env)
         /\ suggestions' = ErrorRateAlerts(rows, environment, notify_env) \o suggestions
    /\ pc' = "failure_query"
    /\ UNCHANGED <<failure_data, environment, notify_env, baseline, current, baseline_map, i,
                   response, oracle_calls, lat_suggestions, latency_alerts, failure_alerts,
                   returned, exc>>
    /\ UNCHANGED otherVars

\* _analyze_error_rates: its query returns rows, and it returns its list
AnalyzeErrorRates ==
    /\ pc = "error_query"
    /\ queries' = Append(queries, Discovered(pc, environment, TRUE))
    /\ \E rows \in ErrorRows :
         /\ errors' = rows
         /\ error_alerts' = ErrorRateAlerts(rows, environment, notify_env)
         /\ suggestions' = suggestions \o ErrorRateAlerts(rows, environment, notify_env)
    /\ pc' = "failure_query"
    /\ UNCHANGED <<failure_data, environment, notify_env, baseline, current, baseline_map, i, response,
                   oracle_calls, lat_suggestions, latency_alerts, failure_alerts,
                   returned, exc>>
    /\ UNCHANGED otherVars

\* as if the failure-rate detector asked the oracle about its first row
AnalyzeFailureRates_AsksOracle ==
    /\ pc = "failure_query"
    /\ queries' = Append(queries, Discovered(pc, environment, TRUE))
    /\ \E rows \in FailureRows :
         /\ failure_data' = rows
         /\ oracle_calls' = IF rows = <<>> THEN oracle_calls
                            ELSE Append(oracle_calls, rows[1].transaction)
         /\ failure_alerts' = FailureRateAlerts(rows, environment, notify_env)
         /\ suggestions' = suggestions \o FailureRateAlerts(rows, environment, notify_env)
    /\ returned' = <<suggestions'>>
    /\ pc' = "done"
    /\ UNCHANGED <<environment, notify_env, baseline, current, baseline_map, i, response,
                   lat_suggestions, latency_alerts, errors, error_alerts,
                   exc>>
    /\ UNCHANGED otherVars

\* _analyze_failure_rates: its query returns rows, it returns its list, and
\* analyze_and_propose returns the accumulated suggestions
AnalyzeFailureRates ==
    /\ pc = "failure_query"
    /\ queries' = Append(queries, Discovered(pc, environment, TRUE))
    /\ \E rows \in FailureRows :
         /\ failure_data' = rows
         /\ failure_alerts' = FailureRateAlerts(rows, environment, notify_env)
         /\ suggestions' = suggestions \o FailureRateAlerts(rows, environment, notify_env)
    /\ returned' = <<suggestions'>>
    /\ pc' = "done"
    /\ UNCHANGED <<environment, notify_env, baseline, current, baseline_map, i, response,
                   oracle_calls, lat_suggestions, latency_alerts, errors, error_alerts,
                   exc>>
    /\ UNCHANGED otherVars

Next ==
    \/ DiscoverBaseline
    \/ DiscoverCurrent
    \/ DiscoverRaises
    \/ LatencyRowSkip
    \/ LatencyRowOracle
    \/ LatencyRowOracleRaises
    \/ LatencyReturn
    \/ AnalyzeErrorRates
    \/ AnalyzeFailureRates

Spec == Init /\ [][Next]_vars

(* ------------------------ the alert-rule normalizer ------------------- *)

\* number of entries of a suggestion's actions list
MaxActions == 2

\* number of _build_alert_payload calls on one suggestion
MaxBuilds == 2

\* d.get(key, default)
Get(d, key, default) == IF key \in DOMAIN d THEN d[key] ELSE default

\* the dict d without the keys
Without(d, keys) == [k \in DOMAIN d \ keys |-> d[k]]

\* {key: opt[1]} when opt is <<value>>, {} when opt is <<>>
Entry(key, opt) == IF opt = <<>> THEN <<>> ELSE [k \in {key} |-> opt[1]]

\* entries a YAML actions list may hold
ActionConfigs ==
    { [type |-> "email", targetType |-> "specific", targetIdentifier |-> "team@example.com"],
      [type |-> "email", targetType |-> "team", targetIdentifier |-> "42"],
      [type |-> "slack", targetType |-> "specific", targetIdentifier |-> "#alerts"],
      [type |-> "email", targetType |-> "user", targetIdentifier |-> "7"],
      [targetIdentifier |-> "ops@example.com"],
      [type |-> "email", targetType |-> "team"] }

ActionLists == UNION {[1..n -> ActionConfigs] : n \in 0..MaxActions}

ThresholdDicts ==
    { <<>>, [critical |-> 50], [warning |-> 30], [warning |-> 30, critical |-> 50] }

Datasets == {"transactions", "errors", "sessions", "events"}

ThresholdTypes == {"above", "below"}

Projects == {"web", "api"}

\* <<>> for a key the file does not have, <<value>> for one it has
Optional(S) == {<<>>} \cup {<<x>> : x \in S}

\* a suggestion as save_as_yaml wrote it
SavedSuggestion ==
    [proposed_by |-> "historical"] @@ FailureSuggestion("/checkout", 51, "production", <<>>)

\* the suggestions a YAML file may hold: a saved suggestion with some keys
\* removed or given other values
AlertConfigs ==
    { Entry("name", nm) @@ Entry("dataset", ds) @@ Entry("environment", env)
        @@ Entry("thresholdType", tt) @@ Entry("thresholds", th) @@ Entry("actions", ac)
        @@ Without(SavedSuggestion, {"name", "dataset", "environment", "thresholdType",
                                     "thresholds", "actions"}) :
        nm \in Optional({SavedSuggestion.name}), ds \in Optional(Datasets),
        env \in Optional(Environments), tt \in Optional(ThresholdTypes),
        th \in Optional(ThresholdDicts), ac \in Optional(ActionLists) }

\* as if "events" were sent to the errors dataset
MapDataset_EventsToErrors(dataset) ==
    IF dataset \in {"transactions", "errors", "sessions"} THEN dataset
    ELSE IF dataset = "events" THEN "errors"
    ELSE "transactions"

\* map_dataset: dataset_mapping.get(dataset, "transactions")
MapDataset(dataset) ==
    IF dataset \in {"transactions", "errors", "sessions"} THEN dataset ELSE "transactions"

\* map_aggregate
MapAggregate(aggregate) == aggregate

RECURSIVE BuildActionsFrom_DropsTeam(_)
\* as if only the specific target type were recognised
BuildActionsFrom_DropsTeam(action_configs) ==
    IF action_configs = <<>> THEN <<>>
    ELSE LET action_config == Head(action_configs)
             rest == BuildActionsFrom_DropsTeam(Tail(action_configs))
         IN IF Get(action_config, "type", "email") = "email"
                 /\ Get(action_config, "targetType", "specific") = "specific"
            THEN <<[type |-> "email", targetType |-> "specific",
                    targetIdentifier |-> Get(action_config, "targetIdentifier", "")]>> \o rest
            ELSE rest

RECURSIVE BuildActionsFrom(_)
\* the loop of _build_actions over action_configs
BuildActionsFrom(action_configs) ==
    IF action_configs = <<>> THEN <<>>
    ELSE LET action_config == Head(action_configs)
             action_type == Get(action_config, "type", "email")
             target_type == Get(action_config, "targetType", "specific")
             target_identifier == Get(action_config, "targetIdentifier", "")
             rest == BuildActionsFrom(Tail(action_configs))
         IN IF action_type = "email" /\ target_type = "specific"
            THEN <<[type |-> "email", targetType |-> "specific",
                    targetIdentifier |-> target_identifier]>> \o rest
            ELSE IF action_type = "email" /\ target_type = "team"
            THEN <<[type |-> "email", targetType |-> "team",
                    targetIdentifier |-> target_identifier]>> \o rest
            ELSE rest

\* _build_actions
BuildActions(config) == BuildActionsFrom(Get(config, "actions", <<>>))

Trigger(label, threshold, config) ==
    [label |-> label, alertThreshold |-> threshold, actions |-> BuildActions(config)]

\* as if the warning trigger were appended before the critical one
BuildTriggers_WarningFirst(config) ==
    LET thresholds == Get(config, "thresholds", <<>>)
    IN (IF "warning" \in DOMAIN thresholds
        THEN <<Trigger("warning", thresholds.warning, config)>> ELSE <<>>)
       \o
       (IF "critical" \in DOMAIN thresholds
        THEN <<Trigger("critical", thresholds.critical, config)>> ELSE <<>>)

\* as if the warning trigger carried no actions
BuildTriggers_WarningSilent(config) ==
    LET thresholds == Get(config, "thresholds", <<>>)
    IN (IF "critical" \in DOMAIN thresholds
        THEN <<Trigger("critical", thresholds.critical, config)>> ELSE <<>>)
       \o
       (IF "warning" \in DOMAIN thresholds
        THEN <<[label |-> "warning", alertThreshold |-> thresholds.warning,
                actions |-> <<>>]>>
        ELSE <<>>)

\* the triggers list of _build_alert_payload
BuildTriggers(config) ==
    LET thresholds == Get(config, "thresholds", <<>>)
    IN (IF "critical" \in DOMAIN thresholds
        THEN <<Trigger("critical", thresholds.critical, config)>> ELSE <<>>)
       \o
       (IF "warning" \in DOMAIN thresholds
        THEN <<Trigger("warning", thresholds.warning, config)>> ELSE <<>>)

\* as if the environment defaulted to production when the suggestion has none
EnvironmentFilter_Defaulted(config) ==
    [environment |-> Get(config, "environment", "production")]

\* the environment entry of the payload
EnvironmentFilter(config) ==
    IF "environment" \in DOMAIN config
    THEN [environment |-> config.environment]
    ELSE <<>>

\* _build_alert_payload, for a suggestion that has a name
BuildAlertPayload(config, slug) ==
    EnvironmentFilter(config) @@
    [name |-> config.name,
     dataset |-> MapDataset(Get(config, "dataset", "transactions")),
     query |-> Get(config, "query", ""),
     aggregate |-> MapAggregate(Get(config, "aggregate", "count()")),
     timeWindow |-> Get(config, "timeWindow", 5),
     thresholdType |-> IF Get(config, "thresholdType", "above") = "above" THEN 0 ELSE 1,
     triggers |-> BuildTriggers(config),
     projects |-> <<slug>>]

NormInit ==
    /\ alert_config \in AlertConfigs
    /\ project_slug \in Projects
    /\ payloads = <<>>
    /\ build_exc = "none"
    /\ FlowIdle
    /\ SvcIdle
    /\ ApplyIdle
    /\ AgentIdle
    /\ CliIdle

\* as if the call consumed the suggestion's environment entry
BuildPayload_PopsEnvironment ==
    /\ "name" \in DOMAIN alert_config
    /\ Len(payloads) < MaxBuilds
    /\ payloads' = Append(payloads, BuildAlertPayload(alert_config, project_slug))
    /\ alert_config' = Without(alert_config, {"environment"})
    /\ UNCHANGED <<project_slug, build_exc>>
    /\ UNCHANGED <<flowVars, svcVars, applyVars, agentVars, cliVars>>

\* one call of _build_alert_payload(alert_config, project_slug)
BuildPayload ==
    /\ "name" \in DOMAIN alert_config
    /\ Len(payloads) < MaxBuilds
    /\ payloads' = Append(payloads, BuildAlertPayload(alert_config, project_slug))
    /\ UNCHANGED <<alert_config, project_slug, build_exc>>
    /\ UNCHANGED <<flowVars, svcVars, applyVars, agentVars, cliVars>>

\* alert_config["name"] raises KeyError
BuildPayloadRaises ==
    /\ "name" \notin DOMAIN alert_config
    /\ build_exc = "none"
    /\ build_exc' = "KeyError"
    /\ UNCHANGED <<alert_config, project_slug, payloads>>
    /\ UNCHANGED <<flowVars, svcVars, applyVars, agentVars, cliVars>>

NormNext ==
    \/ BuildPayload
    \/ BuildPayloadRaises

SpecNormalize == NormInit /\ [][NormNext]_vars

(* ----------------------- the service-analysis flow -------------------- *)

\* number of entries of the alerts list of the agent's final answer
MaxAlerts == 2

\* Python's None; a value v of a field that may be None is <<v>>
None == <<>>

\* d.get(key)
GetOrNone(d, key) == IF key \in DOMAIN d THEN <<d[key]>> ELSE None

\* the aggregates that contain "transaction.duration"
DurationAggregates == {"p95(transaction.duration)"}

\* an alert_config object with every key the flow reads
FullConfig ==
    [aggregate |-> "p95(transaction.duration)", warning_threshold |-> 600,
     critical_threshold |-> 800, severity |-> "CRITICAL", time_window |-> 10]

\* alert_config objects the agent may write
ServiceConfigs ==
    { <<>>,
      FullConfig,
      [FullConfig EXCEPT !.aggregate = "count()"],
      Without(FullConfig, {"critical_threshold"}),
      Without(FullConfig, {"warning_threshold"}),
      Without(FullConfig, {"aggregate", "severity", "time_window"}) }

\* entries the agent may write in alerts
ServiceAlerts ==
    { Entry("alert_name", nm) @@ Entry("alert_config", cfg)
        @@ [endpoint |-> "/checkout", justification |-> "slow database query in the handler"] :
        nm \in Optional({"Checkout endpoint latency"}), cfg \in Optional(ServiceConfigs) }

\* the key of the JSON object holds null: an object lists such keys in null_keys
IsNull(object, key) == key \in Get(object, "null_keys", {})

\* JSON objects the agent may give as its final answer
ServiceAnalyses ==
    { [analysis_summary |-> "one endpoint at risk"],
      [analysis_summary |-> "one endpoint at risk", null_keys |-> {"alerts"}] }
    \cup
    { [alerts |-> al, analysis_summary |-> "one endpoint at risk"] :
        al \in UNION {[1..n -> ServiceAlerts] : n \in 0..MaxAlerts} }

\* final texts of the agent
ServiceTexts ==
    { <<Json(JObject(a))>> : a \in ServiceAnalyses }
    \cup { <<Prose, FenceJson, Json(JObject(a)), Fence>> : a \in ServiceAnalyses }
    \cup { <<Prose>>, <<Json(JArray)>>, <<Fence, Json(JArray), Fence>> }

ExecutionTraces == { <<>>, <<"query_deepwiki_codebase">> }

\* the suggestion _parse_final_response appends for one entry of alerts
ServiceSuggestion(alert) ==
    LET config == Get(alert, "alert_config", <<>>)
    IN [kind |-> "sentry.metric_alert",
        flow |-> "service_analysis_agent",
        name |-> GetOrNone(alert, "alert_name"),
        dataset |-> IF Get(config, "aggregate", "") \in DurationAggregates
                    THEN "transactions" ELSE "events",
        aggregate |-> GetOrNone(config, "aggregate"),
        query |-> [event_type |-> "transaction",
                   transaction |-> Get(alert, "endpoint", "None"),
                   environment |-> "production"],
        timeWindow |-> Get(config, "time_window", 5),
        thresholdType |-> "above",
        environment |-> "production",
        thresholds |-> [warning |-> GetOrNone(config, "warning_threshold"),
                        critical |-> GetOrNone(config, "critical_threshold")],
        justification |-> GetOrNone(alert, "justification"),
        severity |-> Get(config, "severity", "HIGH"),
        actions |-> <<[type |-> "email", targetType |-> "specific",
                       targetIdentifier |-> "team@example.com"]>>]

\* json.loads of the text with its markdown fence removed
ServiceAnalysis == JsonLoads(StripMarkdown(response_text))

SvcInit ==
    /\ response_text \in ServiceTexts
    /\ execution_trace \in ExecutionTraces
    /\ result = <<>>
    /\ svc_pc = "start"
    /\ FlowIdle
    /\ NormIdle
    /\ ApplyIdle
    /\ AgentIdle
    /\ CliIdle

\* _parse_final_response when the try block completes
ParseFinalResponse ==
    /\ svc_pc = "start"
    /\ ServiceAnalysis.kind = "object"
    /\ ~IsNull(ServiceAnalysis.obj, "alerts")
    /\ LET analysis == ServiceAnalysis.obj
           alerts == Get(analysis, "alerts", <<>>)
       IN result' = [suggestions |-> [k \in DOMAIN alerts |-> ServiceSuggestion(alerts[k])],
                     insights |-> Get(analysis, "insights", <<>>),
                     analysis_summary |-> GetOrNone(analysis, "analysis_summary"),
                     execution_trace |-> execution_trace]
    /\ svc_pc' = "returned"
    /\ UNCHANGED <<response_text, execution_trace>>
    /\ UNCHANGED <<flowVars, normVars, applyVars, agentVars, cliVars>>

\* as if the except clause named json.JSONDecodeError only
ParseFinalResponseFallback_DecodeErrorOnly ==
    /\ svc_pc = "start"
    /\ ServiceAnalysis.kind # "object"
    /\ IF ServiceAnalysis = DecodeError
       THEN /\ result' = [error |-> "Failed to parse response: JSONDecodeError",
                          raw_response |-> response_text,
                          execution_trace |-> execution_trace,
                          suggestions |-> <<>>]
            /\ svc_pc' = "returned"
       ELSE /\ svc_pc' = "raised"
            /\ UNCHANGED result
    /\ UNCHANGED <<response_text, execution_trace>>
    /\ UNCHANGED <<flowVars, normVars, applyVars, agentVars, cliVars>>

\* _parse_final_response when json.loads raises JSONDecodeError or the
\* decoded value has no get (AttributeError)
ParseFinalResponseFallback ==
    /\ svc_pc = "start"
    /\ ServiceAnalysis.kind # "object"
    /\ result' = [error |-> "Failed to parse response: "
                              \o (IF ServiceAnalysis = DecodeError
                                  THEN "JSONDecodeError" ELSE "AttributeError"),
                  raw_response |-> response_text,
                  execution_trace |-> execution_trace,
                  suggestions |-> <<>>]
    /\ svc_pc' = "returned"
    /\ UNCHANGED <<response_text, execution_trace>>
    /\ UNCHANGED <<flowVars, normVars, applyVars, agentVars, cliVars>>

\* _parse_final_response when alerts is null: iterating None raises
\* TypeError, which the except clause does not name
ParseFinalResponseRaises ==
    /\ svc_pc = "start"
    /\ ServiceAnalysis.kind = "object"
    /\ IsNull(ServiceAnalysis.obj, "alerts")
    /\ svc_pc' = "raised"
    /\ UNCHANGED <<response_text, execution_trace, result>>
    /\ UNCHANGED <<flowVars, normVars, applyVars, agentVars, cliVars>>

SvcNext ==
    \/ ParseFinalResponse
    \/ ParseFinalResponseFallback
    \/ ParseFinalResponseRaises

SpecService == SvcInit /\ [][SvcNext]_vars

(* -------------------------- the agent loop ----------------------------- *)

\* max_iterations of analyze
max_iterations == 10

\* the tools _get_tool_function knows
KnownTools == {"query_deepwiki_codebase", "query_sentry_traces"}

\* stop reasons other than end_turn and tool_use
OtherStopReasons == {"max_tokens", "stop_sequence"}

\* final texts the model may end its turn with
AgentFinalTexts ==
    { <<Json(JObject([analysis_summary |-> "one endpoint at risk"]))>>,
      <<Json(JObject([alerts |-> <<[alert_name |-> "Checkout endpoint latency",
                                    endpoint |-> "/checkout",
                                    justification |-> "slow database query in the handler",
                                    alert_config |-> FullConfig]>>,
                      analysis_summary |-> "one endpoint at risk"]))>>,
      <<Json(JObject([analysis_summary |-> "one endpoint at risk",
                      null_keys |-> {"alerts"}]))>>,
      <<Prose>> }

\* the dict analyze returns after the loop
MaxIterationsResult(trace) ==
    [error |-> "Max iterations reached", execution_trace |-> trace, suggestions |-> <<>>]

AgentInit ==
    /\ iteration = 0
    /\ model_calls = 0
    /\ messages = <<"user">>
    /\ agent_pc = "loop"
    /\ SvcIdle
    /\ FlowIdle
    /\ NormIdle
    /\ ApplyIdle
    /\ CliIdle

\* the model ends its turn: analyze hands the text to _parse_final_response
ModelEndTurn ==
    /\ agent_pc = "loop"
    /\ iteration < max_iterations
    /\ iteration' = iteration + 1
    /\ model_calls' = model_calls + 1
    /\ \E text \in AgentFinalTexts : response_text' = text
    /\ svc_pc' = "start"
    /\ agent_pc' = "parsing"
    /\ UNCHANGED <<messages, execution_trace, result>>
    /\ UNCHANGED <<flowVars, normVars, applyVars, cliVars>>

\* the model asks for a known tool: it is executed and recorded
ModelToolUse ==
    /\ agent_pc = "loop"
    /\ iteration < max_iterations
    /\ iteration' = iteration + 1
    /\ model_calls' = model_calls + 1
    /\ \E tool_name \in KnownTools : execution_trace' = Append(execution_trace, tool_name)
    /\ messages' = messages \o <<"assistant", "user">>
    /\ UNCHANGED <<agent_pc, response_text, result, svc_pc>>
    /\ UNCHANGED <<flowVars, normVars, applyVars, cliVars>>

\* the model asks for a tool _get_tool_function does not know: ValueError
ModelToolUseUnknown ==
    /\ agent_pc = "loop"
    /\ iteration < max_iterations
    /\ iteration' = iteration + 1
    /\ model_calls' = model_calls + 1
    /\ messages' = Append(messages, "assistant")
    /\ agent_pc' = "raised"
    /\ UNCHANGED <<execution_trace, response_text, result, svc_pc>>
    /\ UNCHANGED <<flowVars, normVars, applyVars, cliVars>>

\* as if an unexpected stop reason returned the trace without an error entry
ModelOtherStop_ReturnsPartial ==
    /\ agent_pc = "loop"
    /\ iteration < max_iterations
    /\ iteration' = iteration + 1
    /\ model_calls' = model_calls + 1
    /\ \E stop_reason \in OtherStopReasons :
         result' = [execution_trace |-> execution_trace, suggestions |-> <<>>]
    /\ agent_pc' = "returned"
    /\ UNCHANGED <<messages, execution_trace, response_text, svc_pc>>
    /\ UNCHANGED <<flowVars, normVars, applyVars, cliVars>>

\* the model stops for another reason: the loop breaks and analyze returns
ModelOtherStop ==
    /\ agent_pc = "loop"
    /\ iteration < max_iterations
    /\ iteration' = iteration + 1
    /\ model_calls' = model_calls + 1
    /\ \E stop_reason \in OtherStopReasons :
         result' = MaxIterationsResult(execution_trace)
    /\ agent_pc' = "returned"
    /\ UNCHANGED <<messages, execution_trace, response_text, svc_pc>>
    /\ UNCHANGED <<flowVars, normVars, applyVars, cliVars>>

\* client.messages.create raises
ModelCallRaises ==
    /\ agent_pc = "loop"
    /\ iteration < max_iterations
    /\ iteration' = iteration + 1
    /\ model_calls' = model_calls + 1
    /\ agent_pc' = "raised"
    /\ UNCHANGED <<messages, execution_trace, response_text, result, svc_pc>>
    /\ UNCHANGED <<flowVars, normVars, applyVars, cliVars>>

\* the while condition fails: analyze returns
LoopExhausted ==
    /\ agent_pc = "loop"
    /\ iteration >= max_iterations
    /\ result' = MaxIterationsResult(execution_trace)
    /\ agent_pc' = "returned"
    /\ UNCHANGED <<iteration, model_calls, messages, execution_trace, response_text, svc_pc>>
    /\ UNCHANGED <<flowVars, normVars, applyVars, cliVars>>

AgentNext ==
    \/ ModelEndTurn
    \/ ModelToolUse
    \/ ModelToolUseUnknown
    \/ ModelOtherStop
    \/ ModelCallRaises
    \/ LoopExhausted
    \/ ParseFinalResponse
    \/ ParseFinalResponseFallback
    \/ ParseFinalResponseRaises

SpecAgent == AgentInit /\ [][AgentNext]_vars

(* ------------------------- the batch applier -------------------------- *)

\* number of YAML files in the alerts directory
MaxFiles == 2

\* a name that differs from the saved suggestion's only in case
CaseVariantName == "/Checkout high failure rate"

\* documents a YAML file may hold
DocCaseVariant == [SavedSuggestion EXCEPT !.name = CaseVariantName]

DocNotMetricAlert == [SavedSuggestion EXCEPT !.kind = "sentry.dashboard"]

DocWithoutName == Without(SavedSuggestion, {"name"})

\* a file yaml.safe_load reads, and one that open or yaml.safe_load fails on
YamlFile(doc) == [readable |-> TRUE, doc |-> doc]

UnreadableFile == [readable |-> FALSE, doc |-> <<>>]

FileContents ==
    { YamlFile(SavedSuggestion), YamlFile(DocCaseVariant), YamlFile(DocNotMetricAlert),
      YamlFile(DocWithoutName), UnreadableFile }

FileLists == UNION {[1..n -> FileContents] : n \in 0..MaxFiles}

\* projects[0]["slug"] of get_project_by_environment
FirstProject == "web"

\* an alert rule as the backend lists it
Rule(id, name, payload) == [id |-> id, name |-> name, payload |-> payload]

\* the payload of a rule submitted earlier with another time window
EarlierPayload(name) ==
    BuildAlertPayload([SavedSuggestion EXCEPT !.name = name, !.timeWindow = 10], FirstProject)

EarlierRule(id, name) == Rule(id, name, EarlierPayload(name))

\* rule lists the backend may hold for the project before the batch
BackendRuleLists ==
    { <<>>,
      <<EarlierRule(1, SavedSuggestion.name)>>,
      <<EarlierRule(1, CaseVariantName)>>,
      <<EarlierRule(1, SavedSuggestion.name), EarlierRule(2, SavedSuggestion.name)>>,
      <<EarlierRule(1, CaseVariantName), EarlierRule(2, SavedSuggestion.name)>> }

\* the name in lower case
Lower(name) == IF name = CaseVariantName THEN SavedSuggestion.name ELSE name

\* the first rule at a position of ks, None when ks is empty
FirstAt(existing_alerts, ks) ==
    IF ks = {} THEN None
    ELSE <<existing_alerts[CHOOSE k \in ks : \A j \in ks : k <= j]>>

\* as if names were compared without regard to case
FindAlertByName_IgnoresCase(existing_alerts, alert_name) ==
    FirstAt(existing_alerts,
            {k \in DOMAIN existing_alerts :
                Lower(existing_alerts[k].name) = Lower(alert_name)})

\* as if the loop compared the rule's slug, which no rule has, with the name
FindAlertByName_ComparesSlug(existing_alerts, alert_name) ==
    FirstAt(existing_alerts,
            {k \in DOMAIN existing_alerts :
                /\ "slug" \in DOMAIN existing_alerts[k]
                /\ existing_alerts[k].slug = alert_name})

\* find_alert_by_name over the listing: the first rule with that name
FindAlertByName(existing_alerts, alert_name) ==
    FirstAt(existing_alerts,
            {k \in DOMAIN existing_alerts : existing_alerts[k].name = alert_name})

\* as if an update sent the existing rule's id inside the payload
SubmitRequest_MergesExisting(config, existing_alerts) ==
    LET existing_alert == FindAlertByName(existing_alerts, config.name)
        payload == BuildAlertPayload(config, FirstProject)
    IN IF existing_alert # None
       THEN [method |-> "PUT", rule_id |-> <<existing_alert[1].id>>,
             payload |-> [id |-> existing_alert[1].id] @@ payload]
       ELSE [method |-> "POST", rule_id |-> None, payload |-> payload]

\* the request create_or_update_alert sends for a suggestion that has a name
SubmitRequest(config, existing_alerts) ==
    LET existing_alert == FindAlertByName(existing_alerts, config.name)
        payload == BuildAlertPayload(config, FirstProject)
    IN IF existing_alert # None
       THEN [method |-> "PUT", rule_id |-> <<existing_alert[1].id>>, payload |-> payload]
       ELSE [method |-> "POST", rule_id |-> None, payload |-> payload]

\* the backend's rules after it accepted the request
Accepted(rules, request) ==
    IF request.method = "POST"
    THEN Append(rules, Rule(Len(rules) + 1, request.payload.name, request.payload))
    ELSE [k \in DOMAIN rules |->
            IF rules[k].id = request.rule_id[1]
            THEN Rule(rules[k].id, request.payload.name, request.payload)
            ELSE rules[k]]

\* response.json() of an accepted request: the rule created or updated
AcceptedRule(rules, request) ==
    Rule(IF request.method = "POST" THEN Len(rules) + 1 ELSE request.rule_id[1],
         request.payload.name, request.payload)

\* what happened to one file: the rules the backend held, the request sent if any
Call(file, outcome, listing, request) ==
    [file |-> file, outcome |-> outcome, listing |-> listing, request |-> request]

\* failures before the rule listing is obtained
ProjectFailures == {"projects_http_error", "no_projects"}

ApplyInit ==
    /\ dir_exists \in BOOLEAN
    /\ yaml_files \in FileLists
    /\ ~dir_exists => yaml_files = <<>>
    /\ file_idx = 0
    /\ backend_rules \in BackendRuleLists
    /\ calls = <<>>
    /\ results = <<>>
    /\ apply_pc = "start"
    /\ reported = <<>>
    /\ FlowIdle
    /\ NormIdle
    /\ SvcIdle
    /\ AgentIdle
    /\ CliIdle

\* apply_alerts_from_directory up to the loop: it returns [] when the
\* directory is missing or holds no YAML file, and main prints the count
ApplyStart ==
    /\ apply_pc = "start"
    /\ IF ~dir_exists \/ yaml_files = <<>>
       THEN /\ apply_pc' = "returned"
            /\ reported' = <<Len(results)>>
            /\ UNCHANGED file_idx
       ELSE /\ apply_pc' = "loop"
            /\ file_idx' = 1
            /\ UNCHANGED reported
    /\ UNCHANGED <<dir_exists, yaml_files, backend_rules, calls, results>>
    /\ UNCHANGED <<flowVars, normVars, svcVars, agentVars, cliVars>>

\* open or yaml.safe_load raises: caught, next file
FileUnreadable ==
    /\ apply_pc = "loop"
    /\ file_idx <= Len(yaml_files)
    /\ ~yaml_files[file_idx].readable
    /\ calls' = Append(calls, Call(file_idx, "unreadable", backend_rules, None))
    /\ file_idx' = file_idx + 1
    /\ UNCHANGED <<dir_exists, yaml_files, backend_rules, results, apply_pc, reported>>
    /\ UNCHANGED <<flowVars, normVars, svcVars, agentVars, cliVars>>

\* the document's kind is not sentry.metric_alert: next file
FileSkipped ==
    /\ apply_pc = "loop"
    /\ file_idx <= Len(yaml_files)
    /\ yaml_files[file_idx].readable
    /\ Get(yaml_files[file_idx].doc, "kind", "") # "sentry.metric_alert"
    /\ alert_config' = yaml_files[file_idx].doc
    /\ calls' = Append(calls, Call(file_idx, "skipped", backend_rules, None))
    /\ file_idx' = file_idx + 1
    /\ UNCHANGED <<dir_exists, yaml_files, backend_rules, results, apply_pc, reported>>
    /\ UNCHANGED <<project_slug, payloads, build_exc>>
    /\ UNCHANGED <<flowVars, svcVars, agentVars, cliVars>>

\* as if a failed lookup left apply_alerts_from_directory as an exception
FileLookupFails_Aborts ==
    /\ apply_pc = "loop"
    /\ file_idx <= Len(yaml_files)
    /\ yaml_files[file_idx].readable
    /\ Get(yaml_files[file_idx].doc, "kind", "") = "sentry.metric_alert"
    /\ alert_config' = yaml_files[file_idx].doc
    /\ \E failure \in ProjectFailures \cup {"KeyError", "alerts_http_error"} :
         /\ failure = "KeyError" => "name" \notin DOMAIN yaml_files[file_idx].doc
         /\ failure = "alerts_http_error" => "name" \in DOMAIN yaml_files[file_idx].doc
         /\ calls' = Append(calls, Call(file_idx, failure, backend_rules, None))
    /\ apply_pc' = "raised"
    /\ UNCHANGED <<dir_exists, yaml_files, file_idx, backend_rules, results, reported>>
    /\ UNCHANGED <<project_slug, payloads, build_exc>>
    /\ UNCHANGED <<flowVars, svcVars, agentVars, cliVars>>

\* create_or_update_alert raises before it sends its request: the project
\* listing fails or is empty, the document has no name (KeyError), or the rule
\* listing fails; caught, next file
FileLookupFails ==
    /\ apply_pc = "loop"
    /\ file_idx <= Len(yaml_files)
    /\ yaml_files[file_idx].readable
    /\ Get(yaml_files[file_idx].doc, "kind", "") = "sentry.metric_alert"
    /\ alert_config' = yaml_files[file_idx].doc
    /\ \E failure \in ProjectFailures \cup {"KeyError", "alerts_http_error"} :
         /\ failure = "KeyError" => "name" \notin DOMAIN yaml_files[file_idx].doc
         /\ failure = "alerts_http_error" => "name" \in DOMAIN yaml_files[file_idx].doc
         /\ calls' = Append(calls, Call(file_idx, failure, backend_rules, None))
    /\ file_idx' = file_idx + 1
    /\ UNCHANGED <<dir_exists, yaml_files, backend_rules, results, apply_pc, reported>>
    /\ UNCHANGED <<project_slug, payloads, build_exc>>
    /\ UNCHANGED <<flowVars, svcVars, agentVars, cliVars>>

\* as if raise_for_status were not called on the response
FileSubmit_IgnoresStatus ==
    /\ apply_pc = "loop"
    /\ file_idx <= Len(yaml_files)
    /\ yaml_files[file_idx].readable
    /\ Get(yaml_files[file_idx].doc, "kind", "") = "sentry.metric_alert"
    /\ "name" \in DOMAIN yaml_files[file_idx].doc
    /\ alert_config' = yaml_files[file_idx].doc
    /\ LET request == SubmitRequest(yaml_files[file_idx].doc, backend_rules)
       IN \E ok \in BOOLEAN :
            /\ calls' = Append(calls, Call(file_idx, IF ok THEN "ok" ELSE "rejected",
                                           backend_rules, <<request>>))
            /\ backend_rules' = IF ok THEN Accepted(backend_rules, request) ELSE backend_rules
            /\ results' = Append(results, AcceptedRule(backend_rules, request))
    /\ file_idx' = file_idx + 1
    /\ UNCHANGED <<dir_exists, yaml_files, apply_pc, reported>>
    /\ UNCHANGED <<project_slug, payloads, build_exc>>
    /\ UNCHANGED <<flowVars, svcVars, agentVars, cliVars>>

\* create_or_update_alert sends its PUT or POST; the backend accepts it and
\* the rule is appended to results, or rejects it and raise_for_status
\* raises: caught, next file
FileSubmit ==
    /\ apply_pc = "loop"
    /\ file_idx <= Len(yaml_files)
    /\ yaml_files[file_idx].readable
    /\ Get(yaml_files[file_idx].doc, "kind", "") = "sentry.metric_alert"
    /\ "name" \in DOMAIN yaml_files[file_idx].doc
    /\ alert_config' = yaml_files[file_idx].doc
    /\ LET request == SubmitRequest(yaml_files[file_idx].doc, backend_rules)
       IN \E ok \in BOOLEAN :
            /\ calls' = Append(calls, Call(file_idx, IF ok THEN "ok" ELSE "rejected",
                                           backend_rules, <<request>>))
            /\ backend_rules' = IF ok THEN Accepted(backend_rules, request) ELSE backend_rules
            /\ results' = IF ok THEN Append(results, AcceptedRule(backend_rules, request))
                          ELSE results
    /\ file_idx' = file_idx + 1
    /\ UNCHANGED <<dir_exists, yaml_files, apply_pc, reported>>
    /\ UNCHANGED <<project_slug, payloads, build_exc>>
    /\ UNCHANGED <<flowVars, svcVars, agentVars, cliVars>>

\* the loop is over: apply_alerts_from_directory returns results and main
\* prints their number
ApplyReturn ==
    /\ apply_pc = "loop"
    /\ file_idx > Len(yaml_files)
    /\ apply_pc' = "returned"
    /\ reported' = <<Len(results)>>
    /\ UNCHANGED <<dir_exists, yaml_files, file_idx, backend_rules, calls, results>>
    /\ UNCHANGED <<flowVars, normVars, svcVars, agentVars, cliVars>>

ApplyNext ==
    \/ ApplyStart
    \/ FileUnreadable
    \/ FileSkipped
    \/ FileLookupFails
    \/ FileSubmit
    \/ ApplyReturn

SpecApply == ApplyInit /\ [][ApplyNext]_vars

(* ---------------------- the command-line entry points ----------------- *)

\* the environment variables either main reads without a default
CredentialVars == {"SENTRY_AUTH_TOKEN", "SENTRY_ORG_SLUG", "ANTHROPIC_API_KEY"}

\* command lines of sentralert and of apply_alerts.py
SentralertArgs ==
    { <<"historical">>, <<"historical", "--auto">>, <<"service">>, <<"service", "--auto">>,
      <<>>, <<"proactive">> }

ApplyAlertsArgs == { <<>>, <<"alerts">> }

\* as if ANTHROPIC_API_KEY were not among the variables sentralert checks
RequiredVars_SentryOnly(prog) ==
    {"SENTRY_AUTH_TOKEN", "SENTRY_ORG_SLUG"}

\* required_vars of cli.main, and the two variables apply_alerts.main tests
RequiredVars(prog) ==
    IF prog = "sentralert"
    THEN {"SENTRY_AUTH_TOKEN", "SENTRY_ORG_SLUG", "ANTHROPIC_API_KEY"}
    ELSE {"SENTRY_AUTH_TOKEN", "SENTRY_ORG_SLUG"}

\* missing_vars: the required variables that are unset or empty
MissingVars(prog, env) == RequiredVars(prog) \ env

CliInit ==
    /\ program \in {"sentralert", "apply_alerts"}
    /\ argv \in IF program = "sentralert" THEN SentralertArgs ELSE ApplyAlertsArgs
    /\ env_vars \in SUBSET CredentialVars
    /\ cli_pc = "start"
    /\ exit_code = <<>>
    /\ effects = <<>>
    /\ FlowIdle
    /\ NormIdle
    /\ SvcIdle
    /\ ApplyIdle
    /\ AgentIdle

\* parser.parse_args(): argparse exits with status 2 on a missing or unknown mode
CliParseArgs ==
    /\ program = "sentralert"
    /\ cli_pc = "start"
    /\ IF argv # <<>> /\ argv[1] \in {"historical", "service"}
       THEN /\ cli_pc' = "validate"
            /\ UNCHANGED exit_code
       ELSE /\ cli_pc' = "exited"
            /\ exit_code' = <<2>>
    /\ UNCHANGED <<program, argv, env_vars, effects>>
    /\ UNCHANGED <<flowVars, normVars, svcVars, applyVars, agentVars>>

\* cli.main validates the environment: sys.exit(1) when a variable is missing
CliValidateEnv ==
    /\ program = "sentralert"
    /\ cli_pc = "validate"
    /\ IF MissingVars(program, env_vars) # {}
       THEN /\ cli_pc' = "exited"
            /\ exit_code' = <<1>>
       ELSE /\ cli_pc' = "clients"
            /\ UNCHANGED exit_code
    /\ UNCHANGED <<program, argv, env_vars, effects>>
    /\ UNCHANGED <<flowVars, normVars, svcVars, applyVars, agentVars>>

\* cli.main constructs the two clients and the agent
CliInitClients ==
    /\ program = "sentralert"
    /\ cli_pc = "clients"
    /\ effects' = effects \o <<"SentryClient", "ClaudeClient", "AlertAgent">>
    /\ cli_pc' = "analysis"
    /\ UNCHANGED <<program, argv, env_vars, exit_code>>
    /\ UNCHANGED <<flowVars, normVars, svcVars, applyVars, agentVars>>

\* cli.main runs the analysis of the mode, saves the suggestions when there
\* are some and runs the git workflow when asked; an exception of the
\* analysis ends the process with status 1
CliRunAnalysis ==
    /\ program = "sentralert"
    /\ cli_pc = "analysis"
    /\ \E outcome \in {"suggestions", "none", "raised"} :
         LET run == IF argv[1] = "service"
                    THEN <<"ServiceAnalysisAgent", "run_and_format">>
                    ELSE <<"agent.run">>
             save == IF outcome # "suggestions" THEN <<>>
                     ELSE IF Len(argv) > 1 THEN <<"save_as_yaml", "auto_git_workflow">>
                     ELSE <<"save_as_yaml">>
         IN /\ effects' = effects \o run \o save
            /\ exit_code' = IF outcome = "raised" THEN <<1>> ELSE <<0>>
    /\ cli_pc' = "exited"
    /\ UNCHANGED <<program, argv, env_vars>>
    /\ UNCHANGED <<flowVars, normVars, svcVars, applyVars, agentVars>>

\* apply_alerts.main tests its two variables and its argument: sys.exit(1)
ApplyMainValidate ==
    /\ program = "apply_alerts"
    /\ cli_pc = "start"
    /\ IF MissingVars(program, env_vars) # {} \/ argv = <<>>
       THEN /\ cli_pc' = "exited"
            /\ exit_code' = <<1>>
       ELSE /\ cli_pc' = "clients"
            /\ UNCHANGED exit_code
    /\ UNCHANGED <<program, argv, env_vars, effects>>
    /\ UNCHANGED <<flowVars, normVars, svcVars, applyVars, agentVars>>

\* apply_alerts.main constructs the applier and applies the directory
ApplyMainRun ==
    /\ program = "apply_alerts"
    /\ cli_pc = "clients"
    /\ effects' = effects \o <<"SentryAlertApplier", "apply_alerts_from_directory">>
    /\ \E fatal \in BOOLEAN : exit_code' = IF fatal THEN <<1>> ELSE <<0>>
    /\ cli_pc' = "exited"
    /\ UNCHANGED <<program, argv, env_vars>>
    /\ UNCHANGED <<flowVars, normVars, svcVars, applyVars, agentVars>>

CliNext ==
    \/ CliParseArgs
    \/ CliValidateEnv
    \/ CliInitClients
    \/ CliRunAnalysis
    \/ ApplyMainValidate
    \/ ApplyMainRun

SpecCli == CliInit /\ [][CliNext]_vars

(* ------------------------------ claims -------------------------------- *)

Range(f) == {f[k] : k \in DOMAIN f}

\* the subject has a row in the baseline window
HasBaselineRow(tx) == \E k \in DOMAIN baseline : baseline[k].transaction = tx

\* the p95 of the subject's baseline row
BaselineP95Of(tx) == baseline[CHOOSE k \in DOMAIN baseline : baseline[k].transaction = tx].p95

\* the oracle was consulted about the subject
OracleAsked(tx) == tx \in Range(oracle_calls)

\* number of suggestions of the latency detector's list that are about the subject
SuggestionsFor(tx) ==
    Cardinality({k \in DOMAIN lat_suggestions : lat_suggestions[k].query.transaction = tx})

\* the rows of current the loop has finished with
Processed == IF pc = "latency_loop" THEN 1..(i - 1) ELSE {}

\* the subject the last oracle call was about
LastAsked == oracle_calls[Len(oracle_calls)]

\* the oracle's last answer, parsed as the detector parses it
LastAnalysis == JsonLoads(StripMarkdown(response[1]))

\* the last answer is a JSON object that carries every key of the expected shape
WellFormed(analysis) ==
    /\ analysis.kind = "object"
    /\ RequiredKeys \cup {"is_legitimate"} \subseteq DOMAIN analysis.obj

\* C1: a row of current whose p95 is <= 500, or <= 1.4 times the p95 of its
\* subject's baseline row, raises no Detection: the oracle is not asked about
\* the subject and the detector's list has no suggestion for it.
C1_NoDetectionBelowGate ==
    \A k \in DOMAIN current :
        LET tx == current[k].transaction
            now == current[k].p95
        IN (now <= 500 \/ (HasBaselineRow(tx) /\ 10 * now <= 14 * BaselineP95Of(tx)))
              => ~OracleAsked(tx) /\ SuggestionsFor(tx) = 0

\* C2: every processed row of current whose subject has a baseline row, with
\* any baseline value, and whose p95 is > 500 and > 1.4 times that baseline, had
\* the oracle consulted; and when the oracle's answer to it affirmed legitimacy
\* exactly one suggestion was emitted for it.
C2_DetectionAboveGate ==
    /\ \A k \in Processed :
          LET tx == current[k].transaction
              now == current[k].p95
          IN (HasBaselineRow(tx) /\ now > 500 /\ 10 * now > 14 * BaselineP95Of(tx))
                => OracleAsked(tx)
    /\ (pc = "latency_loop" /\ response # <<>>
          /\ WellFormed(LastAnalysis) /\ LastAnalysis.obj.is_legitimate = TRUE)
         => SuggestionsFor(LastAsked) = 1

\* C3: every latency suggestion has resolveThreshold = round(1.1 x baseline
\* p95) of its subject (a nearest integer of 1.1 x baseline).
C3_ResolveThresholdRounded ==
    \A k \in DOMAIN lat_suggestions :
        LET s == lat_suggestions[k]
            base == BaselineP95Of(s.query.transaction)
        IN /\ 10 * s.resolveThreshold - 5 <= 11 * base
           /\ 11 * base <= 10 * s.resolveThreshold + 5

\* C3 (amended): every latency suggestion has resolveThreshold = 1.1 x baseline
\* p95 of its subject truncated to an integer, whatever the oracle answered.
C3_ResolveThresholdTruncated ==
    \A k \in DOMAIN lat_suggestions :
        LET s == lat_suggestions[k]
            base == BaselineP95Of(s.query.transaction)
        IN /\ HasBaselineRow(s.query.transaction)
           /\ 10 * s.resolveThreshold <= 11 * base
           /\ 11 * base < 10 * (s.resolveThreshold + 1)

\* a suggestion for a subject of baseline 300 is in the list, with 330
C3_Witness ==
    \E k \in DOMAIN lat_suggestions :
        /\ BaselineP95Of(lat_suggestions[k].query.transaction) = 300
        /\ lat_suggestions[k].resolveThreshold = 330

\* C4: a subject of the current window that has no row in the baseline window
\* never has the oracle asked about it and never gets a suggestion, whatever
\* its current p95.
C4_NoBaselineNoDetection ==
    \A k \in DOMAIN current :
        LET tx == current[k].transaction
        IN ~HasBaselineRow(tx) => ~OracleAsked(tx) /\ SuggestionsFor(tx) = 0

\* the loop is over and passed a row of p95 600 whose subject has no baseline row
C4_Witness ==
    /\ pc = "latency_loop"
    /\ i > Len(current)
    /\ \E k \in DOMAIN current :
          current[k].p95 = 600 /\ ~HasBaselineRow(current[k].transaction)

\* C5: when the oracle's parsed answer has is_legitimate false or absent, no
\* suggestion for that subject is in the list; and every suggestion in the
\* list is for a subject the oracle was asked about and affirmed.
C5_OracleGate ==
    /\ (response # <<>> /\ LastAnalysis.kind = "object"
          /\ ("is_legitimate" \notin DOMAIN LastAnalysis.obj
                \/ LastAnalysis.obj.is_legitimate = FALSE))
         => SuggestionsFor(LastAsked) = 0
    /\ \A k \in DOMAIN lat_suggestions :
          OracleAsked(lat_suggestions[k].query.transaction)
    /\ (response # <<>> /\ SuggestionsFor(LastAsked) > 0)
         => (LastAnalysis.kind = "object"
               /\ "is_legitimate" \in DOMAIN LastAnalysis.obj
               /\ LastAnalysis.obj.is_legitimate = TRUE)

\* the oracle answered without is_legitimate, after an earlier subject's
\* suggestion was kept
C5_Witness ==
    /\ pc = "latency_loop"
    /\ response # <<>>
    /\ LastAnalysis.kind = "object"
    /\ "is_legitimate" \notin DOMAIN LastAnalysis.obj
    /\ Len(lat_suggestions) = 1

\* C6: when the oracle's answer is not well-formed (it does not parse to a JSON
\* object, or the object lacks a required key), the subject gets no suggestion
\* and the detector goes on: no exception leaves it.
C6_MalformedNeverFatal ==
    (response # <<>> /\ ~WellFormed(LastAnalysis))
        => pc = "latency_loop" /\ exc = "none" /\ SuggestionsFor(LastAsked) = 0

\* C7: an oracle call that fails with an API error does not abort the
\* detector: no APIError leaves analyze_and_propose.
C7_OracleFailureAbsorbed ==
    ~(pc = "raised" /\ exc = "APIError")

\* C8: a discover call that failed is the last one issued, its exception left
\* analyze_and_propose, and no list was returned.
C8_TelemetryFailurePropagates ==
    \A k \in DOMAIN queries :
        ~queries[k].ok =>
            /\ k = Len(queries)
            /\ pc = "raised"
            /\ exc = "HTTPError"
            /\ returned = <<>>

\* the error-count query failed after the latency detector had returned a
\* suggestion
C8_Witness ==
    /\ Len(queries) = 3
    /\ ~queries[3].ok
    /\ Len(suggestions) > 0

\* the error-rate detector has returned
ErrorDetectorReturned == Len(queries) >= 3 /\ queries[3].ok

\* C9: the error-rate detector returns exactly one suggestion when the hourly
\* error count is > 50 and none when it is <= 50 or the query has no rows.
C9_ErrorRateBoundary ==
    ErrorDetectorReturned =>
        Len(error_alerts) = IF errors # <<>> /\ errors[1].count > 50 THEN 1 ELSE 0

\* the count was 51 and one suggestion came back
C9_Witness ==
    /\ ErrorDetectorReturned
    /\ errors # <<>>
    /\ errors[1].count = 51
    /\ Len(error_alerts) = 1

\* C10: the error-rate detector's suggestion has thresholds {warning: 30,
\* critical: 50} and dataset "events", whatever the count.
C10_ErrorThresholdsFixed ==
    \A k \in DOMAIN error_alerts :
        /\ error_alerts[k].thresholds = [warning |-> 30, critical |-> 50]
        /\ error_alerts[k].dataset = "events"

\* the count was 75 and a suggestion came back
C10_Witness ==
    /\ errors # <<>>
    /\ errors[1].count = 75
    /\ Len(error_alerts) = 1

\* number of suggestions of the failure-rate detector's list that are about the subject
FailureSuggestionsFor(tx) ==
    Cardinality({k \in DOMAIN failure_alerts : failure_alerts[k].query.transaction = tx})

\* C11: the failure-rate detector emits exactly one suggestion for every row
\* whose failure rate is > 0.05 and none for a row whose rate is <= 0.05, so the
\* number of suggestions is the number of qualifying rows.
C11_FailureRateBoundary ==
    pc = "done" =>
        /\ Len(failure_alerts) =
              Cardinality({k \in DOMAIN failure_data : failure_data[k].failure_rate > 50})
        /\ \A k \in DOMAIN failure_data :
              FailureSuggestionsFor(failure_data[k].transaction) =
                  IF failure_data[k].failure_rate > 50 THEN 1 ELSE 0

\* one subject at exactly 0.05 and one above it: one suggestion
C11_Witness ==
    /\ pc = "done"
    /\ \E k \in DOMAIN failure_data : failure_data[k].failure_rate = 50
    /\ \E k \in DOMAIN failure_data : failure_data[k].failure_rate = 51
    /\ Len(failure_alerts) = 1

\* the row of the failure-rate query that is about the subject
FailureRowOf(tx) == CHOOSE k \in DOMAIN failure_data : failure_data[k].transaction = tx

\* C12: analyze_and_propose returns the latency detector's list, then the
\* error-rate detector's, then the failure-rate detector's, the last in the
\* order of the rows of its query; with three empty lists it returns an empty
\* list.
C12_ConcatenationOrder ==
    /\ pc = "done" =>
          /\ returned = << latency_alerts \o error_alerts \o failure_alerts >>
          /\ \A j, k \in DOMAIN failure_alerts :
                j < k => FailureRowOf(failure_alerts[j].query.transaction)
                            < FailureRowOf(failure_alerts[k].query.transaction)
    /\ pc # "done" => returned = <<>>

\* all three detectors contributed to the returned list
C12_Witness ==
    /\ pc = "done"
    /\ latency_alerts # <<>>
    /\ error_alerts # <<>>
    /\ Len(failure_alerts) = 2
    /\ Len(returned[1]) = Len(latency_alerts) + 3

\* C13: in the returned list every suggestion's name is non-empty and no two
\* suggestions share a name.
C13_NamesUnique ==
    pc = "done" =>
        \A j, k \in DOMAIN returned[1] :
            /\ returned[1][j].name # ""
            /\ j # k => returned[1][j].name # returned[1][k].name

(* claims about the shape of the suggestions *)

\* C14: every suggestion either flow produces has a thresholds record with a
\* critical value: the historical detectors' suggestions have the key critical,
\* and the service flow's suggestions have the key with a value other than None
C14_CriticalThresholdPresent ==
    /\ \A k \in DOMAIN suggestions : "critical" \in DOMAIN suggestions[k].thresholds
    /\ \A k \in DOMAIN Get(result, "suggestions", <<>>) :
          /\ "critical" \in DOMAIN result.suggestions[k].thresholds
          /\ result.suggestions[k].thresholds.critical # None

(* claims about the normalizer *)

\* the thresholds of the suggestion being normalized
ConfigThresholds == Get(alert_config, "thresholds", <<>>)

\* positions of the triggers of payload p labelled label
TriggersLabelled(p, label) == {j \in DOMAIN p.triggers : p.triggers[j].label = label}

\* C15: in every payload built, triggers has a critical entry (with the
\* suggestion's critical threshold) whenever the suggestion's thresholds have
\* one, has a warning entry if and only if the suggestion has a warning
\* threshold, and every critical entry precedes every warning entry
C15_TriggersFollowThresholds ==
    \A n \in DOMAIN payloads :
        LET p == payloads[n]
        IN /\ "critical" \in DOMAIN ConfigThresholds =>
                 \E j \in TriggersLabelled(p, "critical") :
                     p.triggers[j].alertThreshold = ConfigThresholds.critical
           /\ TriggersLabelled(p, "warning") # {} <=> "warning" \in DOMAIN ConfigThresholds
           /\ \A j \in TriggersLabelled(p, "critical"), k \in TriggersLabelled(p, "warning") :
                 j < k

C15_Witness ==
    /\ payloads # <<>>
    /\ DOMAIN ConfigThresholds = {"warning", "critical"}
    /\ TriggersLabelled(payloads[1], "critical") = {1}
    /\ TriggersLabelled(payloads[1], "warning") = {2}

\* the suggestion being normalized has both thresholds
BothThresholds == DOMAIN ConfigThresholds = {"warning", "critical"}

\* the payload has exactly two triggers, critical first, with the same actions
TwoTriggersSameActions(p) ==
    /\ Len(p.triggers) = 2
    /\ p.triggers[1].label = "critical"
    /\ p.triggers[2].label = "warning"
    /\ p.triggers[1].actions = p.triggers[2].actions

\* the action is one _build_actions keeps: its type is email or absent and
\* its targetType is specific, team or absent
Deliverable(a) ==
    /\ Get(a, "type", "email") = "email"
    /\ Get(a, "targetType", "specific") \in {"specific", "team"}

\* the actions of the suggestion being normalized
ConfigActions == Get(alert_config, "actions", <<>>)

\* C16 as stated: for a suggestion with both thresholds, every payload built
\* has exactly two triggers, critical first, both with the same actions list,
\* and that list is non-empty
C16_TwoTriggersNonEmptyActions ==
    BothThresholds =>
        \A n \in DOMAIN payloads :
            /\ TwoTriggersSameActions(payloads[n])
            /\ payloads[n].triggers[1].actions # <<>>

\* C16 amended: for a suggestion with both thresholds, every payload built has
\* exactly two triggers, critical first, both with the same actions list; the
\* list is non-empty exactly when the suggestion has at least one action that
\* _build_actions keeps
C16_TwoTriggersSharedActions ==
    BothThresholds =>
        \A n \in DOMAIN payloads :
            /\ TwoTriggersSameActions(payloads[n])
            /\ payloads[n].triggers[1].actions # <<>>
                  <=> \E k \in DOMAIN ConfigActions : Deliverable(ConfigActions[k])

C16_Witness ==
    /\ BothThresholds
    /\ payloads # <<>>
    /\ Len(ConfigActions) = 2
    /\ Len(payloads[1].triggers[2].actions) = 2

RECURSIVE SelectActions(_, _)
\* the sub-sequence of actions at the positions in keep
SelectActions(actions, keep) ==
    IF actions = <<>> THEN <<>>
    ELSE LET front == SelectActions(SubSeq(actions, 1, Len(actions) - 1), keep)
         IN IF Len(actions) \in keep THEN Append(front, actions[Len(actions)]) ELSE front

\* the type, target type and target of an action, "" for a target it lacks
ActionFields(a) ==
    <<Get(a, "type", "email"), Get(a, "targetType", "specific"), Get(a, "targetIdentifier", "")>>

\* the fields of each action of the list
FieldsOf(actions) == [k \in DOMAIN actions |-> ActionFields(actions[k])]

\* positions of the actions that say type email and targetType specific or team
StatedEmail ==
    {k \in DOMAIN ConfigActions :
        /\ "type" \in DOMAIN ConfigActions[k] /\ ConfigActions[k].type = "email"
        /\ "targetType" \in DOMAIN ConfigActions[k]
        /\ ConfigActions[k].targetType \in {"specific", "team"}}

\* positions of the actions that _build_actions keeps
DeliverableAt == {k \in DOMAIN ConfigActions : Deliverable(ConfigActions[k])}

\* C17 as stated: the actions of a built trigger are, in input order, exactly
\* the suggestion's actions whose type is email and whose targetType is
\* specific or team
C17_KeepsStatedEmailActions ==
    \A n \in DOMAIN payloads : \A j \in DOMAIN payloads[n].triggers :
        FieldsOf(payloads[n].triggers[j].actions)
            = FieldsOf(SelectActions(ConfigActions, StatedEmail))

\* C17 amended: the actions of a built trigger are, in input order, one entry
\* for each of the suggestion's actions whose type is email or absent and
\* whose targetType is specific, team or absent; the entry has exactly the keys
\* type, targetType and targetIdentifier, with targetType specific and
\* targetIdentifier "" where the action lacks them; no action makes the
\* call raise
C17_KeepsDeliverableActions ==
    /\ \A n \in DOMAIN payloads : \A j \in DOMAIN payloads[n].triggers :
          LET built == payloads[n].triggers[j].actions
          IN /\ FieldsOf(built) = FieldsOf(SelectActions(ConfigActions, DeliverableAt))
             /\ \A k \in DOMAIN built :
                   DOMAIN built[k] = {"type", "targetType", "targetIdentifier"}
    /\ build_exc # "none" => "name" \notin DOMAIN alert_config

C17_Witness ==
    /\ payloads # <<>>
    /\ payloads[1].triggers # <<>>
    /\ Len(ConfigActions) = 2
    /\ "type" \notin DOMAIN ConfigActions[1]
    /\ ConfigActions[2] \in {a \in ActionConfigs : ~Deliverable(a)}
    /\ Len(payloads[1].triggers[1].actions) = 1

\* C18: the dataset of every payload built is the suggestion's dataset when
\* that is transactions, errors or sessions, and transactions otherwise,
\* a missing dataset and "events" included
C18_DatasetMapping ==
    \A n \in DOMAIN payloads :
        payloads[n].dataset =
            IF /\ "dataset" \in DOMAIN alert_config
               /\ alert_config.dataset \in {"transactions", "errors", "sessions"}
            THEN alert_config.dataset
            ELSE "transactions"

C18_Witness ==
    /\ payloads # <<>>
    /\ "dataset" \in DOMAIN alert_config
    /\ alert_config.dataset = "events"
    /\ payloads[1].dataset = "transactions"

\* C19: every payload built has an environment key if and only if the
\* suggestion has one, and then with the suggestion's value
C19_EnvironmentIffPresent ==
    \A n \in DOMAIN payloads :
        /\ "environment" \in DOMAIN payloads[n] <=> "environment" \in DOMAIN alert_config
        /\ "environment" \in DOMAIN payloads[n] =>
              payloads[n].environment = alert_config.environment

C19_Witness ==
    /\ payloads # <<>>
    /\ "environment" \notin DOMAIN alert_config
    /\ "environment" \notin DOMAIN payloads[1]

CurrentRowOf(tx) == CHOOSE k \in DOMAIN current : current[k].transaction = tx

\* the sequence of positive integers is strictly increasing
Increasing(s) == \A j, k \in DOMAIN s : j < k => s[j] < s[k]

\* C26: while the latency detector runs, the oracle calls made so far are for
\* rows of current already passed, in row order, and the suggestions appended
\* so far are for rows of current in row order; one step makes at most one
\* oracle call, and that call is for the row the loop is at
C26_SubjectsInRowOrder ==
    /\ [](pc = "latency_loop" =>
            /\ Increasing([k \in DOMAIN oracle_calls |-> CurrentRowOf(oracle_calls[k])])
            /\ \A k \in DOMAIN oracle_calls : CurrentRowOf(oracle_calls[k]) < i
            /\ Increasing([k \in DOMAIN lat_suggestions |->
                              CurrentRowOf(lat_suggestions[k].query.transaction)])
            /\ \A k \in DOMAIN lat_suggestions :
                  lat_suggestions[k].query.transaction \in Range(oracle_calls))
    /\ [][oracle_calls' # oracle_calls =>
             /\ pc = "latency_loop"
             /\ oracle_calls' = Append(oracle_calls, current[i].transaction)]_vars

C26_Witness ==
    /\ pc = "latency_loop"
    /\ Len(oracle_calls) = 2
    /\ Len(lat_suggestions) = 2
    /\ lat_suggestions[1].query.transaction = current[1].transaction
    /\ lat_suggestions[2].query.transaction = current[2].transaction

\* rows of current at positions in rows that pass the latency gate
GatedAmong(rows) == {k \in rows : LatencyGate(current[k], baseline_map)}

\* C27: while the latency detector runs, the number of oracle calls equals
\* the number of rows passed so far that pass the gate (when a call has
\* raised, the rows up to and including the one the loop is at); no step
\* outside the latency loop makes an oracle call, so the count at the end of
\* the loop, all gated rows of current, is the count of the run
C27_OneOracleCallPerGatedRow ==
    /\ [](pc = "latency_loop" =>
            Len(oracle_calls) = Cardinality(GatedAmong(1..(i - 1))))
    /\ [](pc = "raised" /\ exc \in {"APIError", "AttributeError"} =>
            Len(oracle_calls) = Cardinality(GatedAmong(1..i)))
    /\ [][pc # "latency_loop" => oracle_calls' = oracle_calls]_vars

C27_Witness ==
    /\ pc = "latency_loop"
    /\ i > Len(current)
    /\ Len(current) = 2
    /\ Cardinality(GatedAmong(1..2)) = 1
    /\ Len(oracle_calls) = 1

(* claims about the service flow's fallback *)

\* the text holds no JSON object
NoJsonObject(text) ==
    ~ \E k \in DOMAIN text : text[k].t = "json" /\ text[k].v.kind = "object"

\* C28: when the final answer holds no JSON object, _parse_final_response
\* does not raise, and what it returns has an error entry, the raw response
\* text, the execution trace it was given and an empty suggestions list
C28_FallbackOnUnparseable ==
    svc_pc \in {"returned", "raised"} /\ NoJsonObject(response_text) =>
        /\ svc_pc = "returned"
        /\ DOMAIN result = {"error", "raw_response", "execution_trace", "suggestions"}
        /\ result.raw_response = response_text
        /\ result.execution_trace = execution_trace
        /\ result.suggestions = <<>>

C28_Witness ==
    /\ svc_pc = "returned"
    /\ response_text = <<Json(JArray)>>
    /\ execution_trace # <<>>
    /\ "error" \in DOMAIN result
    /\ result.execution_trace = execution_trace

(* claims about the agent loop *)

\* analyze has raised, in the loop or in _parse_final_response
AnalyzeRaised == agent_pc = "raised" \/ (agent_pc = "parsing" /\ svc_pc = "raised")

\* analyze has returned without an end_turn response
ReturnedWithoutEndTurn == agent_pc = "returned"

\* C24 as stated: analyze makes at most 10 model calls and then returns, it
\* never raises; when it returns without an end_turn response the result has
\* an error entry and an empty suggestions list
C24_BoundedAndReturns ==
    /\ model_calls <= 10
    /\ ~AnalyzeRaised
    /\ ReturnedWithoutEndTurn =>
          "error" \in DOMAIN result /\ result.suggestions = <<>>

\* C24 amended: analyze makes at most 10 model calls, one per iteration; when
\* it returns without an end_turn response the result has an error entry and
\* an empty suggestions list, and that happens only after an unexpected stop
\* reason or after the tenth call; analyze may also raise instead of
\* returning, and after the tenth call the loop makes no further call
C24_BoundedReturnsOrRaises ==
    /\ model_calls <= 10
    /\ model_calls = iteration
    /\ ReturnedWithoutEndTurn =>
          /\ "error" \in DOMAIN result
          /\ result.suggestions = <<>>
          /\ result.execution_trace = execution_trace
    /\ agent_pc = "loop" /\ model_calls = 10 => ENABLED LoopExhausted

C24_Witness ==
    /\ agent_pc = "returned"
    /\ model_calls = 10
    /\ Len(execution_trace) = 10
    /\ result.error = "Max iterations reached"

(* claims about the reconciler and the batch apply *)

\* the document of the file of call entry k
DocOf(k) == yaml_files[calls[k].file].doc

\* create_or_update_alert was called for the file of entry k
Reconciled(k) == calls[k].outcome \notin {"unreadable", "skipped"}

\* positions in the listing of entry k of the rules named exactly as its document
NameMatches(k) ==
    {m \in DOMAIN calls[k].listing : calls[k].listing[m].name = DocOf(k).name}

\* the id of the first rule of the listing of entry k with the document's name
FirstMatchId(k) ==
    calls[k].listing[CHOOSE m \in NameMatches(k) : \A n \in NameMatches(k) : m <= n].id

\* entry k sent one request: a PUT to the first rule with the document's name
\* when there is one, a POST otherwise
OneRightRequest(k) ==
    /\ Len(calls[k].request) = 1
    /\ NameMatches(k) # {} =>
          /\ calls[k].request[1].method = "PUT"
          /\ calls[k].request[1].rule_id = <<FirstMatchId(k)>>
    /\ NameMatches(k) = {} =>
          /\ calls[k].request[1].method = "POST"
          /\ calls[k].request[1].rule_id = None

\* C21 as stated: every create_or_update_alert call for a named suggestion
\* sends exactly one request, a PUT to the first rule with exactly that name
\* when the project has one and a POST when it has none
C21_ExactlyOneRequestPerCall ==
    \A k \in DOMAIN calls :
        Reconciled(k) /\ "name" \in DOMAIN DocOf(k) => OneRightRequest(k)

\* C21 amended: a create_or_update_alert call whose project lookup and rule
\* listing succeed sends exactly one request, a PUT to the first rule with
\* exactly the suggestion's name when the listing has one and a POST when it
\* has none; a call that fails before that, or a file that is unreadable or
\* skipped, sends no request
C21_UpdateOnMatchElseCreate ==
    \A k \in DOMAIN calls :
        IF calls[k].outcome \in {"ok", "rejected"}
        THEN OneRightRequest(k)
        ELSE calls[k].request = None

C21_Witness ==
    \E j, k \in DOMAIN calls :
        /\ calls[j].request # None
        /\ calls[k].request # None
        /\ Len(calls[j].listing) = 2
        /\ DocOf(j).name = SavedSuggestion.name
        /\ calls[j].listing[1].name = CaseVariantName
        /\ calls[j].request[1].method = "PUT"
        /\ calls[j].request[1].rule_id = <<2>>
        /\ DocOf(k).name = CaseVariantName
        /\ calls[k].request[1].rule_id = <<1>>

\* outcomes of a file whose processing failed
FailedOutcomes ==
    {"unreadable", "projects_http_error", "no_projects", "KeyError", "alerts_http_error",
     "rejected"}

\* C22: apply_alerts_from_directory never leaves as an exception; while it
\* loops, the files before the loop position have each been processed once,
\* in order, whatever their outcome, and when it returns every file of the
\* directory has been processed
C22_FailureSkipsOneFile ==
    /\ apply_pc # "raised"
    /\ apply_pc = "loop" => Len(calls) = file_idx - 1
    /\ apply_pc = "returned" => Len(calls) = Len(yaml_files)
    /\ \A k \in DOMAIN calls : calls[k].file = k

C22_Witness ==
    /\ apply_pc = "returned"
    /\ Len(calls) = 2
    /\ calls[1].outcome \in FailedOutcomes
    /\ calls[2].outcome = "ok"

\* C23: the count main prints is the number of files whose create or update
\* the backend accepted, and results holds one rule for each of them
C23_CountIsSuccesses ==
    /\ Len(results) = Cardinality({k \in DOMAIN calls : calls[k].outcome = "ok"})
    /\ apply_pc = "returned" =>
          reported = <<Cardinality({k \in DOMAIN calls : calls[k].outcome = "ok"})>>
    /\ apply_pc # "returned" => reported = <<>>

C23_Witness ==
    /\ apply_pc = "returned"
    /\ reported = <<1>>
    /\ \E j, k \in DOMAIN calls :
         /\ calls[j].outcome = "ok"
         /\ calls[k].outcome \in {"skipped", "rejected"}

\* entry k sent a POST for the name
CreateFor(k, name) ==
    /\ calls[k].request # None
    /\ calls[k].request[1].method = "POST"
    /\ calls[k].request[1].payload.name = name

\* entry k sent a request for the name
RequestFor(k, name) ==
    /\ calls[k].request # None
    /\ calls[k].request[1].payload.name = name

\* names of the suggestions for which a request was sent
NamesSubmitted == {calls[k].request[1].payload.name : k \in {j \in DOMAIN calls : calls[j].request # None}}

\* C29 as stated: at most one create is sent per suggestion name
C29_OneCreateIssuedPerName ==
    \A name \in NamesSubmitted :
        Cardinality({k \in DOMAIN calls : CreateFor(k, name)}) <= 1

\* C29 amended: the backend accepts at most one create per suggestion name,
\* and after it accepted one, every later request for that name is an update
\* of the rule that create made; after a create the backend rejected, the
\* next request for that name is a create again
C29_OneCreateAcceptedPerName ==
    \A name \in NamesSubmitted :
        /\ Cardinality({k \in DOMAIN calls : CreateFor(k, name) /\ calls[k].outcome = "ok"}) <= 1
        /\ \A j, k \in DOMAIN calls :
              /\ j < k
              /\ CreateFor(j, name)
              /\ RequestFor(k, name)
              => IF calls[j].outcome = "ok"
                 THEN /\ calls[k].request[1].method = "PUT"
                      /\ calls[k].request[1].rule_id = <<Len(calls[j].listing) + 1>>
                 ELSE (\A m \in (j + 1)..(k - 1) : ~RequestFor(m, name))
                         => calls[k].request[1].method = "POST"

C29_Witness ==
    /\ Len(calls) = 2
    /\ CreateFor(1, SavedSuggestion.name)
    /\ calls[1].outcome = "ok"
    /\ calls[2].request # None
    /\ calls[2].request[1].method = "PUT"
    /\ calls[2].request[1].payload.name = SavedSuggestion.name
    /\ calls[2].outcome = "ok"
    /\ Len(backend_rules) = Len(calls[1].listing) + 1

\* C30: after create_or_update_alert the suggestion is the document that was
\* loaded, and two requests sent for equal documents carry equal payloads
\* whether they are creates or updates and whatever the matched rule holds
C30_SuggestionUntouchedPayloadSame ==
    /\ \A k \in DOMAIN calls :
          k = Len(calls) /\ calls[k].outcome # "unreadable" => alert_config = DocOf(k)
    /\ \A j, k \in DOMAIN calls :
          /\ calls[j].request # None
          /\ calls[k].request # None
          /\ DocOf(j) = DocOf(k)
          => calls[j].request[1].payload = calls[k].request[1].payload

C30_Witness ==
    /\ Len(calls) = 2
    /\ DocOf(1) = DocOf(2)
    /\ calls[1].request # None
    /\ calls[2].request # None
    /\ calls[1].request[1].method = "POST"
    /\ calls[2].request[1].method = "PUT"
    /\ alert_config = DocOf(2)

(* claims about the command-line entry points *)

\* a credential the program needs is unset or empty
CredentialMissing ==
    \/ "SENTRY_AUTH_TOKEN" \notin env_vars
    \/ "SENTRY_ORG_SLUG" \notin env_vars
    \/ program = "sentralert" /\ "ANTHROPIC_API_KEY" \notin env_vars

\* C25: when a required credential is missing, main constructs no client,
\* runs no analysis and applies nothing, and once it is past its checks it
\* has exited with a non-zero code
C25_MissingCredentialExitsFirst ==
    CredentialMissing =>
        /\ effects = <<>>
        /\ cli_pc \in {"start", "validate", "exited"}
        /\ cli_pc = "exited" => exit_code # <<>> /\ exit_code[1] # 0
        /\ cli_pc # "exited" => exit_code = <<>>

C25_Witness ==
    /\ program = "sentralert"
    /\ argv = <<"historical">>
    /\ env_vars = {"SENTRY_AUTH_TOKEN", "SENTRY_ORG_SLUG"}
    /\ cli_pc = "exited"
    /\ exit_code = <<1>>
    /\ effects = <<>>

====
